---- MODULE Spec2Model ----
(***************************************************************************)
(* Intake state engine of init-intake: extractFromText, computeComplexity, *)
(* nextMissing (src/lib/brain.ts), suggestBundles (src/unnamed/part_000),  *)
(* questionForField (src/unnamed/part_001) and the POST turn handler       *)
(* (src/unnamed/part_002).                                                 *)
(*                                                                         *)
(* Representation.                                                         *)
(*  - An optional field of a ChatState is a set: undefined is {} and a     *)
(*    field holding v is {v}.                                              *)
(*  - Numbers are fixed point, in hundredths (Cents per unit), so that the *)
(*    "round to cents" of the handler and a decimal reply are exact.       *)
(*  - A message is a sequence of tokens: lower-cased words, numbers, "$",  *)
(*    "," and ".", e-mail addresses and phone numbers.  Tokens are         *)
(*    separated by white space except that "," and "." are glued to the    *)
(*    token before them and a number is glued to a "$" before it.  Every   *)
(*    regular expression of the source is an operator over token           *)
(*    sequences.                                                           *)
(*  - A string built by the handler is the sequence of its segments.       *)
(***************************************************************************)
EXTENDS Integers, Sequences, FiniteSets, TLC

VARIABLES
  state,   \* the ChatState the client holds: what the last response returned
  sent,    \* the ChatState of the last well-formed request
  msg,     \* the message of the last request
  local,   \* locals of the last run of the handler
  resp,    \* the last response
  turn,    \* the number of requests of the session so far
  leads,   \* the lead store (data/leads.json)
  result,  \* the value of the last evaluation of a function on its own
  body,    \* the shape of the body of the last request
  pc       \* "session": turns of a session; "input", "evaluated": one evaluation

vars == <<state, sent, msg, local, resp, turn, leads, result, body, pc>>

\* the longest session explored
MaxTurns == 3

\* ------------------------------------------------------------------ values

undefined == {}

Some(v) == {v}

Get(f) == CHOOSE v \in f : TRUE

\* hundredths per unit: the factor of Math.round(x * 100) / 100
Cents == 100

\* ------------------------------------------------------------------ tokens

W(s) == [k |-> "word", w |-> s, v |-> 0]

\* a number written with the value n (in hundredths)
N(n) == [k |-> "num", w |-> "#", v |-> n]

E(s) == [k |-> "email", w |-> s, v |-> 0]

\* a phone-shaped token holding d digits
P(s, d) == [k |-> "phone", w |-> s, v |-> d]

EndTok == [k |-> "end", w |-> "", v |-> 0]

Words(ss) == [i \in 1..Len(ss) |-> W(ss[i])]

At(m, i) == IF i \in 1..Len(m) THEN m[i] ELSE EndTok

IsWord(m, i, S) == At(m, i).k = "word" /\ At(m, i).w \in S

IsNum(m, i) == At(m, i).k = "num"

\* a number without a decimal part: what \d+ followed by white space matches
IsInt(m, i) == IsNum(m, i) /\ At(m, i).v % Cents = 0

\* the words ws, in a row, start at position i
PhraseAt(m, i, ws) == \A j \in 1..Len(ws) : IsWord(m, i + j - 1, {ws[j]})

HasPhrase(m, ws) == \E i \in 1..Len(m) : PhraseAt(m, i, ws)

\* one of the alternatives of a regular expression occurs in m
HasAny(m, alts) == \E ws \in alts : HasPhrase(m, ws)

\* the alternative of alts that starts at i, as its length (0: none)
AltLenAt(m, i, alts) ==
  LET ok == {Len(ws) : ws \in {x \in alts : PhraseAt(m, i, x)}}
  IN  IF ok = {} THEN 0 ELSE CHOOSE n \in ok : \A k \in ok : k <= n

\* ------------------------------------------------------------------ ChatState

EmptyState ==
  [quantity |-> undefined, budgetPerUnitUsd |-> undefined,
   shippingType |-> undefined, branding |-> undefined,
   international |-> undefined, email |-> undefined, phone |-> undefined,
   deadlineText |-> undefined, distributionTiming |-> undefined,
   addressHandling |-> undefined, brandingNeedsQualification |-> undefined]

\* ------------------------------------------------------------------ computeComplexity

\* the leftmost of the positions where an expression matches (0: no match)
FirstIdx(ok) ==
  IF ok = {} THEN 0 ELSE CHOOSE i \in ok : \A j \in ok : i <= j

\* /\bin\s+(\d+)\s+weeks?\b/ and /\bin\s+(\d+)\s+days?\b/: the first match
InCountAt(t, i, units) ==
  IsWord(t, i, {"in"}) /\ IsInt(t, i + 1) /\ IsWord(t, i + 2, units)

_isTightDeadline(deadlineText) ==
  LET t == deadlineText
      weeksMatch == FirstIdx({i \in 1..Len(t) : InCountAt(t, i, {"week", "weeks"})})
      daysMatch == FirstIdx({i \in 1..Len(t) : InCountAt(t, i, {"day", "days"})})
  IN  IF HasAny(t, {<<"asap">>}) THEN TRUE
      ELSE IF HasAny(t, {<<"urgent">>, <<"urgently">>}) THEN TRUE
      ELSE IF HasAny(t, {<<"rush">>}) THEN TRUE
      ELSE IF HasAny(t, {<<"immediately">>}) THEN TRUE
      ELSE IF weeksMatch # 0 /\ t[weeksMatch + 1].v <= 2 * Cents THEN TRUE
      ELSE IF daysMatch # 0 /\ t[daysMatch + 1].v <= 14 * Cents THEN TRUE
      ELSE FALSE

\* one scoring rule: its delta and its reason when it fires
Rule(fires, delta, reason) ==
  IF fires THEN [delta |-> delta, reasons |-> <<reason>>]
  ELSE [delta |-> 0, reasons |-> <<>>]

\* variant of ScoreRules: individual shipping counts +1
ScoreRulesIndividualOne(s) ==
  << Rule(s.budgetPerUnitUsd = undefined, 1, "Budget not provided"),
     Rule(s.shippingType = Some("individual"), 1, "Individual shipping"),
     Rule(s.distributionTiming = Some("over_time"), 1,
          "Storage and distribution over time"),
     Rule(s.addressHandling = Some("handled_by_us"), 1,
          "Address collection and distribution handled by us"),
     Rule(s.branding = Some("laser") \/ s.branding = Some("embroidery"), 1,
          "High-touch branding (laser/embroidery)"),
     Rule(s.quantity # undefined /\ Get(s.quantity) > 200 * Cents, 1,
          "Large quantity"),
     Rule(s.international = Some(TRUE), 2, "International shipping"),
     Rule(s.deadlineText # undefined /\ _isTightDeadline(Get(s.deadlineText)), 1,
          "Tight deadline"),
     Rule(s.brandingNeedsQualification = Some(TRUE), 1,
          "Branding needs clarification") >>

ScoreRules(s) ==
  << Rule(s.budgetPerUnitUsd = undefined, 1, "Budget not provided"),
     Rule(s.shippingType = Some("individual"), 2, "Individual shipping"),
     Rule(s.distributionTiming = Some("over_time"), 1,
          "Storage and distribution over time"),
     Rule(s.addressHandling = Some("handled_by_us"), 1,
          "Address collection and distribution handled by us"),
     Rule(s.branding = Some("laser") \/ s.branding = Some("embroidery"), 1,
          "High-touch branding (laser/embroidery)"),
     Rule(s.quantity # undefined /\ Get(s.quantity) > 200 * Cents, 1,
          "Large quantity"),
     Rule(s.international = Some(TRUE), 2, "International shipping"),
     Rule(s.deadlineText # undefined /\ _isTightDeadline(Get(s.deadlineText)), 1,
          "Tight deadline"),
     Rule(s.brandingNeedsQualification = Some(TRUE), 1,
          "Branding needs clarification") >>

RECURSIVE SumDelta(_)
SumDelta(rs) == IF rs = <<>> THEN 0 ELSE Head(rs).delta + SumDelta(Tail(rs))

RECURSIVE AllReasons(_)
AllReasons(rs) ==
  IF rs = <<>> THEN <<>> ELSE Head(rs).reasons \o AllReasons(Tail(rs))

Min(a, b) == IF a <= b THEN a ELSE b

Max(a, b) == IF a >= b THEN a ELSE b

\* variant of Clamp: the lower limit only
ClampFromBelow(raw) == Max(1, raw)

\* score = Math.min(5, Math.max(1, score))
Clamp(raw) == Min(5, Max(1, raw))

\* variant of ModeOf: the bands only, without the qualification override
ModeOfBands(score, needsQualification) ==
  IF score <= 2 THEN "streamlined"
  ELSE IF score <= 4 THEN "assisted"
  ELSE "high_touch"

ModeOf(score, needsQualification) ==
  IF needsQualification THEN "assisted"
  ELSE IF score <= 2 THEN "streamlined"
  ELSE IF score <= 4 THEN "assisted"
  ELSE "high_touch"

computeComplexity(s) ==
  LET rules == ScoreRules(s)
      score == Clamp(1 + SumDelta(rules))
  IN  [score |-> score,
       mode |-> ModeOf(score, s.brandingNeedsQualification = Some(TRUE)),
       reasons |-> AllReasons(rules)]

\* ------------------------------------------------------------------ nextMissing

Push(cond, key) == IF cond THEN <<key>> ELSE <<>>

\* variant of nextMissing: distributionTiming asked whatever the shipping type
nextMissingUngated(s) ==
  Push(s.quantity = undefined, "quantity")
  \o Push(s.budgetPerUnitUsd = undefined, "budgetPerUnitUsd")
  \o Push(s.deadlineText = undefined, "deadlineText")
  \o Push(s.shippingType = undefined, "shippingType")
  \o Push(s.branding = undefined, "branding")
  \o Push(s.shippingType = Some("individual") /\ s.international = undefined,
          "international")
  \o Push(s.distributionTiming = undefined, "distributionTiming")
  \o Push(s.shippingType = Some("individual") /\ s.addressHandling = undefined,
          "addressHandling")
  \o Push(s.email = undefined /\ s.phone = undefined, "email")

nextMissing(s) ==
  Push(s.quantity = undefined, "quantity")
  \o Push(s.budgetPerUnitUsd = undefined, "budgetPerUnitUsd")
  \o Push(s.deadlineText = undefined, "deadlineText")
  \o Push(s.shippingType = undefined, "shippingType")
  \o Push(s.branding = undefined, "branding")
  \o Push(s.shippingType = Some("individual") /\ s.international = undefined,
          "international")
  \o Push(s.shippingType = Some("bulk") /\ s.distributionTiming = undefined,
          "distributionTiming")
  \o Push(s.shippingType = Some("individual") /\ s.addressHandling = undefined,
          "addressHandling")
  \o Push(s.email = undefined /\ s.phone = undefined, "email")


\* ------------------------------------------------------------------ extractFromText: numbers

\* parseInt of the digits a leading (\d+) takes from a number: its integer part
HeadDigits(tok) == tok.v \div Cents

\* the written fraction digits of a number ("30.5" -> 5, "30.25" -> 25)
FracDigits(tok) ==
  LET f == tok.v % Cents IN IF f % 10 = 0 THEN f \div 10 ELSE f

\* parseInt of the digits (\d+) takes when white space or a noun must follow:
\* the whole of an integer, the fraction digits of a decimal
TailDigits(tok) == IF tok.v % Cents = 0 THEN tok.v \div Cents ELSE FracDigits(tok)

RangeNouns == {"people", "employees", "recipients", "gifts", "units"}

QtyNouns == {"people", "employees", "recipients", "gifts", "units", "pcs", "items"}

ProductNouns ==
  {"hoodie", "hoodies", "shirt", "shirts", "tshirt", "tshirts", "t-shirt",
   "t-shirts", "jacket", "jackets", "bag", "bags", "kit", "kits", "boxe",
   "boxes", "gift", "gifts", "mug", "mugs", "bottle", "bottles", "notebook",
   "notebooks", "device", "devices", "item", "items", "unit", "units",
   "piece", "pieces", "pcs"}

ApproxWords == {"~", "about", "approx", "around"}

\* (?:swag|kits?|boxes?|welcome\s+kits?|onboarding|new\s+hires?|new\s+employees?)
SwagNouns ==
  {<<"swag">>, <<"kit">>, <<"kits">>, <<"boxe">>, <<"boxes">>,
   <<"welcome", "kit">>, <<"welcome", "kits">>, <<"onboarding">>,
   <<"new", "hire">>, <<"new", "hires">>, <<"new", "employee">>,
   <<"new", "employees">>}

\* /swag|kit|box|welcome|onboarding|new\s+hire|new\s+employee/i, unanchored:
\* the words of the vocabulary that contain a match
SwagContext ==
  {<<"swag">>, <<"kit">>, <<"kits">>, <<"box">>, <<"boxe">>, <<"boxes">>,
   <<"welcome">>, <<"onboarding">>, <<"new", "hire">>, <<"new", "hires">>,
   <<"new", "employee">>, <<"new", "employees">>}

\* punctuation, written glued to the token before it
Punct == {",", ".", "!", "?"}

\* tokens that start with a character that is not a \w character
Symbols == Punct \cup {"$", "-", "~", "<", "<="}

\* tokens that are not made of \w characters only
NonWordChars == Symbols \cup {"don't", "i'm", "we'll", "t-shirt", "t-shirts",
                              "mid-December", "mid-december"}

\* \w+ followed by white space: one word or integer, with nothing glued to it
IsWChunk(m, i) ==
  /\ \/ (At(m, i).k = "word" /\ At(m, i).w \notin NonWordChars)
     \/ IsInt(m, i)
  /\ ~IsWord(m, i + 1, Punct)

\* a match of one numeric pattern: found, and the number it captured
NoMatch == [found |-> FALSE, n |-> 0]

Match(n) == [found |-> TRUE, n |-> n]

\* the leftmost match of an expression; caps[i]: its capture when it matches at
\* position i, as a sequence (<<>>: no match there)
Leftmost(caps) ==
  LET i == FirstIdx({j \in 1..Len(caps) : caps[j] # <<>>})
  IN  IF i = 0 THEN NoMatch ELSE Match(caps[i][1])

\* a ?? b ?? c
FirstFound(ms) ==
  LET ok == {i \in 1..Len(ms) : ms[i].found}
  IN  IF ok = {} THEN NoMatch ELSE ms[CHOOSE i \in ok : \A j \in ok : i <= j]

\* for (const re of patterns) { m = t.match(re); if (m && n > 0) { set; break } }
FirstPositive(ms) ==
  LET ok == {i \in 1..Len(ms) : ms[i].found /\ ms[i].n > 0}
  IN  IF ok = {} THEN NoMatch ELSE ms[CHOOSE i \in ok : \A j \in ok : i <= j]

\* rangeQty: [1] and [2] of the first of the three range patterns that matches
QtyRange(m) ==
  LET between(i) ==
        /\ IsWord(m, i, {"between"}) /\ IsInt(m, i + 1)
        /\ IsWord(m, i + 2, {"and"}) /\ IsNum(m, i + 3)
      sep(i, w) ==
        /\ IsNum(m, i) /\ IsWord(m, i + 1, {w}) /\ IsInt(m, i + 2)
        /\ IsWord(m, i + 3, RangeNouns)
      i1 == FirstIdx({i \in 1..Len(m) : between(i)})
      i2 == FirstIdx({i \in 1..Len(m) : sep(i, "to")})
      i3 == FirstIdx({i \in 1..Len(m) : sep(i, "-")})
  IN  IF i1 # 0
        THEN [found |-> TRUE, a |-> HeadDigits(m[i1 + 1]), b |-> HeadDigits(m[i1 + 3])]
      ELSE IF i2 # 0
        THEN [found |-> TRUE, a |-> TailDigits(m[i2]), b |-> HeadDigits(m[i2 + 2])]
      ELSE IF i3 # 0
        THEN [found |-> TRUE, a |-> TailDigits(m[i3]), b |-> HeadDigits(m[i3 + 2])]
      ELSE [found |-> FALSE, a |-> 0, b |-> 0]

\* qtyPatterns, in order: the match of each
QtyPatterns(m) ==
  LET product(i) ==
        /\ IsNum(m, i)
        /\ \/ IsWord(m, i + 1, ProductNouns)
           \/ IsWord(m, i + 1, {"embroidered", "custom"})
              /\ IsWord(m, i + 2, ProductNouns)
      oneWord(i) ==
        /\ IsNum(m, i)
        /\ \/ IsWord(m, i + 1, QtyNouns)
           \/ IsWChunk(m, i + 1) /\ IsWord(m, i + 2, QtyNouns)
      noun(i) == IsNum(m, i) /\ IsWord(m, i + 1, QtyNouns)
      forN(i) ==
        /\ IsWord(m, i, {"for"})
        /\ \/ IsNum(m, i + 1)
           \/ IsWord(m, i + 1, ApproxWords) /\ IsNum(m, i + 2)
      forVal(i) == IF IsNum(m, i + 1) THEN HeadDigits(m[i + 1])
                   ELSE HeadDigits(m[i + 2])
      sendPos(i) ==
        LET j == IF IsWord(m, i + 1, {"to"}) THEN i + 2 ELSE i + 1
        IN  IF IsWord(m, j, {"~", "about"}) THEN j + 1 ELSE j
      sendN(i) == IsWord(m, i, {"send", "sending"}) /\ IsNum(m, sendPos(i))
      swag(i) == IsNum(m, i) /\ AltLenAt(m, i + 1, SwagNouns) > 0
  IN  << Leftmost([i \in 1..Len(m) |-> IF product(i) THEN <<TailDigits(m[i])>> ELSE <<>>]),
         Leftmost([i \in 1..Len(m) |-> IF oneWord(i) THEN <<TailDigits(m[i])>> ELSE <<>>]),
         Leftmost([i \in 1..Len(m) |-> IF noun(i) THEN <<TailDigits(m[i])>> ELSE <<>>]),
         Leftmost([i \in 1..Len(m) |-> IF forN(i) THEN <<forVal(i)>> ELSE <<>>]),
         Leftmost([i \in 1..Len(m) |-> IF sendN(i) THEN <<HeadDigits(m[sendPos(i)])>> ELSE <<>>]),
         Leftmost([i \in 1..Len(m) |-> IF swag(i) THEN <<TailDigits(m[i])>> ELSE <<>>]) >>

\* the fallback: a number at the beginning and a swag word anywhere
QtyFallback(m) ==
  IF IsNum(m, 1) /\ HasAny(m, SwagContext) THEN Match(HeadDigits(m[1]))
  ELSE NoMatch

\* the quantity field after the three quantity steps; d: what the expressions
\* found in the text
ExtractQuantity(d, prev) ==
  LET r == d.rangeQty
      afterRange ==
        IF r.found /\ r.a > 0 /\ r.b > 0
        THEN Some(((r.a + r.b + 1) \div 2) * Cents)
        ELSE prev
      afterSingle ==
        IF afterRange = undefined /\ d.qty.found THEN Some(d.qty.n * Cents)
        ELSE afterRange
  IN  IF afterSingle = undefined /\ d.qtyFallback.found /\ d.qtyFallback.n > 0
      THEN Some(d.qtyFallback.n * Cents)
      ELSE afterSingle


\* (?:each|per\s+(?:person|employee|recipient|unit|head|item)|pp\b) at i
PerUnitAt(m, i) ==
  \/ IsWord(m, i, {"each", "pp"})
  \/ IsWord(m, i, {"per"})
     /\ IsWord(m, i + 1, {"person", "employee", "recipient", "unit", "head", "item"})

\* (?:each|per\s) at i: "per" needs white space after it
EachOrPerAt(m, i) ==
  \/ IsWord(m, i, {"each"})
  \/ IsWord(m, i, {"per"}) /\ i + 1 <= Len(m) /\ ~IsWord(m, i + 1, Punct)

\* the position of the number of "$?N" starting at i (0: none)
DollarNum(m, i) ==
  IF IsNum(m, i) THEN i
  ELSE IF IsWord(m, i, {"$"}) /\ IsNum(m, i + 1) THEN i + 1
  ELSE 0

\* rangeBudget: [1] and [2] of the first of the three range patterns that matches
BudgetRange(m) ==
  LET between(i) ==
        /\ IsWord(m, i, {"between"}) /\ IsNum(m, i + 1)
        /\ IsWord(m, i + 2, {"and"}) /\ IsNum(m, i + 3)
        /\ \/ IsWord(m, i + 4, {"each", "dollar", "dollars", "us", "usd"})
           \/ IsWord(m, i + 4, {"per"}) /\ At(m, i + 5).k \in {"word", "num"}
                /\ ~IsWord(m, i + 5, Symbols)
      second(i, w) ==
        IF DollarNum(m, i) # 0 /\ IsWord(m, DollarNum(m, i) + 1, {w})
        THEN DollarNum(m, DollarNum(m, i) + 2)
        ELSE 0
      sep(i, w) == second(i, w) # 0 /\ EachOrPerAt(m, second(i, w) + 1)
      i1 == FirstIdx({i \in 1..Len(m) : between(i)})
      i2 == FirstIdx({i \in 1..Len(m) : sep(i, "to")})
      i3 == FirstIdx({i \in 1..Len(m) : sep(i, "-")})
  IN  IF i1 # 0
        THEN [found |-> TRUE, a |-> m[i1 + 1].v, b |-> m[i1 + 3].v]
      ELSE IF i2 # 0
        THEN [found |-> TRUE, a |-> m[DollarNum(m, i2)].v, b |-> m[second(i2, "to")].v]
      ELSE IF i3 # 0
        THEN [found |-> TRUE, a |-> m[DollarNum(m, i3)].v, b |-> m[second(i3, "-")].v]
      ELSE [found |-> FALSE, a |-> 0, b |-> 0]

\* (?:under|<=?|less\s+than|max(?:imum)?|no\s+more\s+than)
CeilingWords ==
  {<<"under">>, <<"<">>, <<"<=">>, <<"less", "than">>, <<"max">>,
   <<"maximum">>, <<"no", "more", "than">>}

\* budgetPatterns, in order: the match of each (numbers in hundredths)
BudgetPatterns(m) ==
  LET dollarEach(i) ==
        IsWord(m, i, {"$"}) /\ IsNum(m, i + 1) /\ PerUnitAt(m, i + 2)
      each(i) == IsNum(m, i) /\ PerUnitAt(m, i + 1)
      ceilingPos(i) ==
        IF AltLenAt(m, i, CeilingWords) = 0 THEN 0
        ELSE DollarNum(m, i + AltLenAt(m, i, CeilingWords))
      aroundPos(i) ==
        IF IsWord(m, i, ApproxWords) THEN DollarNum(m, i + 1) ELSE 0
      aroundDollar(i) ==
        IsWord(m, i, ApproxWords) /\ IsWord(m, i + 1, {"$"}) /\ IsNum(m, i + 2)
      dollarEnd(i) ==
        IsWord(m, i, {"$"}) /\ IsNum(m, i + 1) /\ i + 1 = Len(m)
      numDollar(i) == IsNum(m, i) /\ IsWord(m, i + 1, {"$"})
  IN  << Leftmost([i \in 1..Len(m) |-> IF dollarEach(i) THEN <<m[i + 1].v>> ELSE <<>>]),
         Leftmost([i \in 1..Len(m) |-> IF each(i) THEN <<m[i].v>> ELSE <<>>]),
         Leftmost([i \in 1..Len(m) |-> IF ceilingPos(i) # 0 THEN <<m[ceilingPos(i)].v>> ELSE <<>>]),
         Leftmost([i \in 1..Len(m) |-> IF aroundPos(i) # 0 THEN <<m[aroundPos(i)].v>> ELSE <<>>]),
         Leftmost([i \in 1..Len(m) |-> IF aroundDollar(i) THEN <<m[i + 2].v>> ELSE <<>>]),
         Leftmost([i \in 1..Len(m) |-> IF dollarEnd(i) THEN <<m[i + 1].v>> ELSE <<>>]),
         Leftmost([i \in 1..Len(m) |-> IF numDollar(i) THEN <<m[i].v>> ELSE <<>>]) >>

\* the budgetPerUnitUsd field after the two budget steps
ExtractBudget(d, prev) ==
  LET r == d.rangeBudget
      afterRange ==
        IF r.found /\ r.a > 0 /\ r.b > 0 THEN Some((r.a + r.b + 1) \div 2)
        ELSE prev
  IN  IF afterRange = undefined /\ d.budget.found THEN Some(d.budget.n)
      ELSE afterRange


\* ------------------------------------------------------------------ extractFromText: text

\* token i is written without white space before it
Glued(m, i) ==
  /\ i > 1
  /\ \/ IsWord(m, i, Punct)
     \/ IsWord(m, i - 1, {"$"}) /\ IsNum(m, i)

RECURSIVE DigitCount(_)
DigitCount(n) == IF n < 10 THEN 1 ELSE 1 + DigitCount(n \div 10)

\* the number of characters of a token as written
TokLen(tok) ==
  IF tok.k # "num" THEN Len(tok.w)
  ELSE DigitCount(tok.v \div Cents)
       + (IF tok.v % Cents = 0 THEN 0
          ELSE IF tok.v % 10 = 0 THEN 2 ELSE 3)

RECURSIVE TextLenFrom(_, _)
TextLenFrom(m, i) ==
  IF i > Len(m) THEN 0
  ELSE TokLen(m[i]) + (IF i > 1 /\ ~Glued(m, i) THEN 1 ELSE 0) + TextLenFrom(m, i + 1)

\* t.length
TextLen(m) == TextLenFrom(m, 1)

\* /home\s+address(es)?|individual\s+address(es)?|ship\s+to\s+each|multiple\s+addresses/i
individualKw ==
  {<<"home", "address">>, <<"home", "addresses">>, <<"individual", "address">>,
   <<"individual", "addresses">>, <<"ship", "to", "each">>,
   <<"multiple", "addresses">>}

\* /\bbulk\b|one\s+location|ship\s+to\s+(?:the\s+)?office|single\s+address|to\s+our\s+hq/i
bulkKw ==
  {<<"bulk">>, <<"one", "location">>, <<"ship", "to", "office">>,
   <<"ship", "to", "the", "office">>, <<"single", "address">>,
   <<"single", "addresses">>, <<"to", "our", "hq">>}

\* variant of ExtractShipping: the shipping type of the text alone
ExtractShippingOfText(d, prev) ==
  IF d.individualKw THEN Some("individual")
  ELSE IF d.bulkKw THEN Some("bulk")
  ELSE undefined

ExtractShipping(d, prev) ==
  IF d.individualKw THEN Some("individual")
  ELSE IF d.bulkKw THEN Some("bulk")
  ELSE prev

\* /not\s+sure|don'?t\s+know|unsure|open\s+to|flexible|no\s+idea/i
UncertainWords ==
  {<<"not", "sure">>, <<"don't", "know">>, <<"dont", "know">>, <<"unsure">>,
   <<"open", "to">>, <<"flexible">>, <<"no", "idea">>}

\* /brand|branding|logo|embroidery|engraving|custom/i, unanchored: the words of
\* the vocabulary that contain a match
BrandingVocabulary ==
  {<<"brand">>, <<"branding">>, <<"branded">>, <<"unbranded">>, <<"logo">>,
   <<"logos">>, <<"embroidery">>, <<"engraving">>, <<"custom">>,
   <<"customers">>}

uncertainBranding(m) == HasAny(m, UncertainWords) /\ HasAny(m, BrandingVocabulary)

\* brandingRules, in priority order
brandingRules ==
  << [type |-> "embroidery",
      re |-> {<<"embroider">>, <<"embroidered">>, <<"embroidery">>}],
     [type |-> "laser",
      re |-> {<<"laser">>, <<"engrave">>, <<"engraved">>, <<"engraving">>}],
     [type |-> "insert",
      re |-> {<<"insert">>, <<"note", "card">>, <<"note", "cards">>,
              <<"message", "card">>, <<"message", "cards">>}],
     [type |-> "sticker",
      re |-> {<<"sticker">>, <<"stickers">>, <<"label">>, <<"labels">>}],
     [type |-> "none",
      re |-> {<<"no", "branding">>, <<"no", "logo">>, <<"no", "logos">>,
              <<"unbranded">>}] >>

\* variant of FirstBrandingRule: the last rule whose expression matches
LastBrandingRule(m) ==
  LET ok == {i \in 1..Len(brandingRules) : HasAny(m, brandingRules[i].re)}
  IN  IF ok = {} THEN 0 ELSE CHOOSE i \in ok : \A j \in ok : i >= j

\* the branding rule that applies: the first whose expression matches (0: none)
FirstBrandingRule(m) ==
  LET ok == {i \in 1..Len(brandingRules) : HasAny(m, brandingRules[i].re)}
  IN  IF ok = {} THEN 0 ELSE CHOOSE i \in ok : \A j \in ok : i <= j

\* variant of ExtractBranding: the uncertain-branding rule only clears a
\* branding that was set, and the ladder applies otherwise
ExtractBrandingClearsSet(d, prev) ==
  IF d.uncertainBranding /\ prev # undefined THEN undefined
  ELSE IF d.brandingRule # 0 THEN Some(brandingRules[d.brandingRule].type)
  ELSE prev

ExtractBranding(d, prev) ==
  IF d.uncertainBranding THEN undefined
  ELSE IF d.brandingRule # 0 THEN Some(brandingRules[d.brandingRule].type)
  ELSE prev

\* variant of ExtractNeedsQualification: a text that names a branding method
\* answers the qualification
ExtractNeedsQualificationUntilNamed(d, prev) ==
  IF d.uncertainBranding THEN Some(TRUE)
  ELSE IF d.brandingRule # 0 THEN undefined
  ELSE prev

ExtractNeedsQualification(d, prev) ==
  IF d.uncertainBranding THEN Some(TRUE) ELSE prev

\* /\b(?:not\s+sure|don'?t\s+know|unsure|no\s+idea|no\s+clue|idk|skip)\b/i
unsurePhrase(m) ==
  HasAny(m, {<<"not", "sure">>, <<"don't", "know">>, <<"dont", "know">>,
             <<"unsure">>, <<"no", "idea">>, <<"no", "clue">>, <<"idk">>,
             <<"skip">>})

AllAtOnceWords ==
  {<<"all", "at", "once">>, <<"delivered", "at", "once">>, <<"one", "delivery">>,
   <<"single", "delivery">>, <<"all", "at", "one", "time">>}

\* over\s+time|stored\s+and\s+distribut|stored\s+later|distribut(?:e|ed)\s+later|
\* store\s+and\s+distribut, each followed by \b
OverTimeWords ==
  {<<"over", "time">>, <<"stored", "and", "distribut">>, <<"stored", "later">>,
   <<"distribute", "later">>, <<"distributed", "later">>,
   <<"store", "and", "distribut">>}

ExtractDistributionTiming(d, shipping, prev) ==
  IF shipping = Some("bulk") /\ prev = undefined
  THEN IF d.unsurePhrase /\ d.length < 60 THEN Some("unknown")
       ELSE IF d.allAtOnce THEN Some("all_at_once")
       ELSE IF d.overTime THEN Some("over_time")
       ELSE prev
  ELSE prev

\* we\s+(?:will|'ll|provide)|we\s+have|i(?:'ll| will)\s+provide|provided\s+by\s+us|
\* our\s+addresses|provide\s+the\s+addresses
ProvidedWords ==
  {<<"we", "will">>, <<"we", "'ll">>, <<"we", "provide">>, <<"we", "have">>,
   <<"i'll", "provide">>, <<"i", "will", "provide">>, <<"provided", "by", "us">>,
   <<"our", "addresses">>, <<"provide", "the", "addresses">>}

\* you\s+(?:handle|collect)|handle\s+collection|handle\s+distribut|you\s+collect|
\* handled\s+by\s+(?:you|us), each followed by \b
HandledWords ==
  {<<"you", "handle">>, <<"you", "collect">>, <<"handle", "collection">>,
   <<"handle", "distribut">>, <<"handled", "by", "you">>,
   <<"handled", "by", "us">>}

ExtractAddressHandling(d, shipping, prev) ==
  IF shipping = Some("individual") /\ prev = undefined
  THEN IF d.unsurePhrase /\ d.length < 60 THEN Some("unknown")
       ELSE IF d.provided THEN Some("provided")
       ELSE IF d.handled THEN Some("handled_by_us")
       ELSE prev
  ELSE prev


\* the message without one closing "." or "!"
Unclosed(m) ==
  IF Len(m) > 1 /\ IsWord(m, Len(m), {".", "!"}) THEN SubSeq(m, 1, Len(m) - 1)
  ELSE m

\* /^\s*(yes|yeah|yep|yup|sure|correct|we do|we have)\s*[\.\!]?\s*$/i
bareYes(m) ==
  Unclosed(m) \in {Words(ws) : ws \in {<<"yes">>, <<"yeah">>, <<"yep">>, <<"yup">>,
                                      <<"sure">>, <<"correct">>, <<"we", "do">>,
                                      <<"we", "have">>}}

\* /^\s*(no|nope|nah|negative|we don't|we do not|us only|domestic only)\s*[\.\!]?\s*$/i
bareNo(m) ==
  Unclosed(m) \in {Words(ws) : ws \in {<<"no">>, <<"nope">>, <<"nah">>,
                                      <<"negative">>, <<"we", "don't">>,
                                      <<"we", "do", "not">>, <<"us", "only">>,
                                      <<"domestic", "only">>}}

\* /\b(us only|domestic only|no international|across the us|within the us|in the us|domestic)\b/i
noInternational(m) ==
  HasAny(m, {<<"us", "only">>, <<"domestic", "only">>, <<"no", "international">>,
             <<"across", "the", "us">>, <<"within", "the", "us">>,
             <<"in", "the", "us">>, <<"domestic">>})

\* /international|outside\s+(?:the\s+)?us|canada|united\s+kingdom|\buk\b|\beu\b|europe|asia/i
InternationalWords ==
  {<<"international">>, <<"internationally">>, <<"outside", "us">>,
   <<"outside", "the", "us">>, <<"canada">>, <<"united", "kingdom">>, <<"uk">>,
   <<"eu">>, <<"europe">>, <<"asia">>}

\* variant of ExtractInternational: a text without an international keyword
\* means a domestic request
ExtractInternationalOfText(d, prev) ==
  IF d.bareYes THEN Some(TRUE)
  ELSE IF d.bareNo \/ d.noInternational THEN Some(FALSE)
  ELSE Some(d.internationalKw)

ExtractInternational(d, prev) ==
  IF d.bareYes THEN Some(TRUE)
  ELSE IF d.bareNo \/ d.noInternational THEN Some(FALSE)
  ELSE IF d.internationalKw THEN Some(TRUE)
  ELSE prev

\* String.prototype.toLowerCase on the addresses of the vocabulary
toLowerCase(s) ==
  CASE s = "Bob@Corp.com" -> "bob@corp.com"
    [] OTHER -> s

\* emailMatch and phoneMatch: the first token of the kind, as a sequence
FirstOfKind(m, kind) ==
  LET i == FirstIdx({j \in 1..Len(m) : At(m, j).k = kind})
  IN  IF i = 0 THEN <<>> ELSE <<m[i]>>

ExtractEmail(d, prev) ==
  IF d.emailMatch # <<>> THEN Some(toLowerCase(d.emailMatch[1].w)) ELSE prev

\* the first phone-shaped match counts, and only with 10 digits or more
ExtractPhone(d, prev) ==
  IF d.phoneMatch # <<>> /\ d.phoneMatch[1].v >= 10 THEN Some(d.phoneMatch[1].w)
  ELSE prev

\* the last token of the first n white-space separated chunks from token i on
CaptureEnd(m, i, n) ==
  LET ok == {e \in i..Len(m) : Cardinality({j \in i..e : ~Glued(m, j)}) <= n}
  IN  CHOOSE e \in ok : \A f \in ok : f <= e

\* token i starts a chunk (\s+\S+ can match there)
ChunkAt(m, i) == i \in 2..Len(m) /\ ~Glued(m, i)

MidWords == {"mid-December", "mid-January", "mid-March"}

\* deadlinePatterns, in order: the capture of each (<<>>: no match)
DeadlinePatterns(m) ==
  LET cap(Q(_), n(_)) ==
        LET i == FirstIdx({j \in 1..Len(m) : Q(j)})
        IN  IF i = 0 THEN <<>> ELSE SubSeq(m, i, CaptureEnd(m, i, n(i)))
      endOf(i) == PhraseAt(m, i + 1, <<"end", "of">>) /\ ChunkAt(m, i + 3)
      by(i) == IsWord(m, i, {"by"}) /\ ChunkAt(m, i + 1)
      before(i) == IsWord(m, i, {"before"}) /\ ChunkAt(m, i + 1)
      need(i) ==
        /\ IsWord(m, i, {"need", "needed"})
        /\ IsWord(m, i + 1, {"by", "before", "in"})
        /\ ChunkAt(m, i + 2)
      isAt(i) == IsWord(m, i + 1, {"is"}) /\ ChunkAt(m, i + 2)
      deadline(i) == IsWord(m, i, {"deadline"}) /\ ChunkAt(m, i + 1)
      inN(i) == InCountAt(m, i, {"week", "weeks", "month", "months", "day", "days"})
      inCount == LET i == FirstIdx({j \in 1..Len(m) : inN(j)})
                 IN  IF i = 0 THEN <<>> ELSE SubSeq(m, i, i + 2)
      word(S) == LET i == FirstIdx({j \in 1..Len(m) : IsWord(m, j, S)})
                 IN  IF i = 0 THEN <<>> ELSE <<m[i]>>
  IN  << cap(by, LAMBDA i : IF endOf(i) THEN 7 ELSE 5),
         cap(before, LAMBDA i : 5),
         cap(need, LAMBDA i : 6),
         cap(deadline, LAMBDA i : IF isAt(i) THEN 6 ELSE 5),
         inCount,
         word(MidWords),
         word({"asap"}),
         word({"urgent", "urgently"}) >>

\* the capture of the first deadline pattern that matches (<<>>: none)
DeadlineMatch(m) ==
  LET caps == DeadlinePatterns(m)
      ok == {i \in 1..Len(caps) : caps[i] # <<>>}
  IN  IF ok = {} THEN <<>> ELSE caps[CHOOSE i \in ok : \A j \in ok : i <= j]

\* variant of ExtractDeadline: a text without a deadline clears the field
ExtractDeadlineOfText(d, prev) ==
  IF d.deadline # <<>> THEN Some(d.deadline) ELSE undefined

ExtractDeadline(d, prev) ==
  IF d.deadline # <<>> THEN Some(d.deadline) ELSE prev

\* what the regular expressions of extractFromText find in a text: the part of
\* the function that does not read the previous state
Detect(t) ==
  [rangeQty |-> QtyRange(t),
   qty |-> FirstPositive(QtyPatterns(t)),
   qtyFallback |-> QtyFallback(t),
   rangeBudget |-> BudgetRange(t),
   budget |-> FirstPositive(BudgetPatterns(t)),
   individualKw |-> HasAny(t, individualKw),
   bulkKw |-> HasAny(t, bulkKw),
   uncertainBranding |-> uncertainBranding(t),
   brandingRule |-> FirstBrandingRule(t),
   unsurePhrase |-> unsurePhrase(t),
   length |-> TextLen(t),
   allAtOnce |-> HasAny(t, AllAtOnceWords),
   overTime |-> HasAny(t, OverTimeWords),
   provided |-> HasAny(t, ProvidedWords),
   handled |-> HasAny(t, HandledWords),
   bareYes |-> bareYes(t),
   bareNo |-> bareNo(t),
   noInternational |-> noInternational(t),
   internationalKw |-> HasAny(t, InternationalWords),
   emailMatch |-> FirstOfKind(t, "email"),
   phoneMatch |-> FirstOfKind(t, "phone"),
   deadline |-> DeadlineMatch(t)]

\* the fields of next, in the order the function assigns them
Merge(d, prevState) ==
  LET shipping == ExtractShipping(d, prevState.shippingType)
  IN  [quantity |-> ExtractQuantity(d, prevState.quantity),
       budgetPerUnitUsd |-> ExtractBudget(d, prevState.budgetPerUnitUsd),
       shippingType |-> shipping,
       branding |-> ExtractBranding(d, prevState.branding),
       international |-> ExtractInternational(d, prevState.international),
       email |-> ExtractEmail(d, prevState.email),
       phone |-> ExtractPhone(d, prevState.phone),
       deadlineText |-> ExtractDeadline(d, prevState.deadlineText),
       distributionTiming |->
         ExtractDistributionTiming(d, shipping, prevState.distributionTiming),
       addressHandling |->
         ExtractAddressHandling(d, shipping, prevState.addressHandling),
       brandingNeedsQualification |->
         ExtractNeedsQualification(d, prevState.brandingNeedsQualification)]


\* ------------------------------------------------------------------ messages

Comma == W(",")

Stop == W(".")

Dollar == W("$")

\* "We need 40 gifts, budget is $45 each, bulk to SF office, all at once, no
\* branding, delivery in 4 weeks."
MsgStreamlined ==
  Words(<<"we", "need">>) \o <<N(40 * Cents)>> \o Words(<<"gifts", ",", "budget", "is", "$">>)
  \o <<N(45 * Cents)>> \o Words(<<"each", ",", "bulk", "to", "sf", "office", ",", "all",
                                 "at", "once", ",", "no", "branding", ",", "delivery", "in">>)
  \o <<N(4 * Cents)>> \o Words(<<"weeks", ".">>)

\* "40 gifts, $45 each, bulk shipping, mid-December delivery."
MsgNoBranding ==
  <<N(40 * Cents)>> \o Words(<<"gifts", ",", "$">>) \o <<N(45 * Cents)>>
  \o Words(<<"each", ",", "bulk", "shipping", ",", "mid-December", "delivery", ".">>)

\* "30 swag, $25 each, bulk, no logo, flexible."
MsgFlexible ==
  <<N(30 * Cents)>> \o Words(<<"swag", ",", "$">>) \o <<N(25 * Cents)>>
  \o Words(<<"each", ",", "bulk", ",", "no", "logo", ",", "flexible", ".">>)

\* "80 gifts, $40 each, ship to individual addresses, we provide the
\* addresses, no branding, mid-January."
MsgIndividual ==
  <<N(80 * Cents)>> \o Words(<<"gifts", ",", "$">>) \o <<N(40 * Cents)>>
  \o Words(<<"each", ",", "ship", "to", "individual", "addresses", ",", "we",
             "provide", "the", "addresses", ",", "no", "branding", ",",
             "mid-January", ".">>)

\* "250 embroidered hoodies, ship to individual addresses in US and Canada,
\* you handle collection and distribution, need them in 2 weeks."
MsgHighTouch ==
  <<N(250 * Cents)>>
  \o Words(<<"embroidered", "hoodies", ",", "ship", "to", "individual", "addresses",
             "in", "us", "and", "canada", ",", "you", "handle", "collection", "and",
             "distribution", ",", "need", "them", "in">>)
  \o <<N(2 * Cents)>> \o Words(<<"weeks", ".">>)

\* "bulk, all at once, no branding, by friday"
MsgLogistics ==
  Words(<<"bulk", ",", "all", "at", "once", ",", "no", "branding", ",", "by", "friday">>)

\* "We'd like to explore a small gifting project."
MsgExplore ==
  Words(<<"we'd", "like", "to", "explore", "a", "small", "gifting", "project", ".">>)

\* "Around $70 each."
MsgAround == Words(<<"around", "$">>) \o <<N(70 * Cents)>> \o Words(<<"each", ".">>)

\* "between 30 and 51"
MsgBareRange == Words(<<"between">>) \o <<N(30 * Cents)>> \o Words(<<"and">>) \o <<N(51 * Cents)>>

Messages ==
  { MsgStreamlined, MsgNoBranding, MsgFlexible, MsgIndividual, MsgHighTouch,
    MsgLogistics, MsgExplore, MsgAround, MsgBareRange,
    <<N(30 * Cents)>>,
    <<N(30 * Cents + 50)>>,
    <<N(0)>>,
    <<Dollar, N(45 * Cents)>>,
    Words(<<"i", "don't", "know">>),
    Words(<<"i'm", "not", "sure">>),
    Words(<<"not", "sure", "about", "the", "branding", ".">>),
    Words(<<"skip">>),
    Words(<<"all", "at", "once">>),
    Words(<<"over", "time">>),
    Words(<<"yes">>),
    Words(<<"no">>),
    Words(<<"laser", "engraving">>),
    Words(<<"we'll", "provide", "the", "addresses">>),
    Words(<<"asap">>),
    Words(<<"email", "is">>) \o <<E("zezette@test.com")>>,
    <<E("Bob@Corp.com")>>,
    Words(<<"call">>) \o <<P("415-555-0100", 10)>> }

\* the texts: the messages of the sessions and
\* "not sure about embroidery", "embroidery or stickers", "across the us and
\* canada", "domestic only", "shipping to europe"
ExtractTexts ==
  Messages \cup
  {Words(<<"not", "sure", "about", "embroidery">>),
   Words(<<"embroidery", "or", "stickers">>),
   Words(<<"across", "the", "us", "and", "canada">>),
   Words(<<"domestic", "only">>),
   Words(<<"shipping", "to", "europe">>)}

\* Detect, tabulated over the texts
Detected == [m \in ExtractTexts |-> Detect(m)]

extractFromText(text, prevState) ==
  Merge(IF text \in ExtractTexts THEN Detected[text] ELSE Detect(text), prevState)

\* ------------------------------------------------------------------ suggestBundles

BUNDLES ==
  << [id |-> "snack-box", name |-> "Snack Box", unitPrice |-> 18,
      leadTimeDays |-> 5, minQty |-> 25, maxQty |-> 500,
      eligibleShipping |-> {"bulk", "individual", "unknown"},
      eligibleBranding |-> {"none", "sticker", "insert", "unknown"}],
     [id |-> "notebook-pen", name |-> "Notebook + Pen", unitPrice |-> 22,
      leadTimeDays |-> 7, minQty |-> 50, maxQty |-> 1000,
      eligibleShipping |-> {"bulk", "individual", "unknown"},
      eligibleBranding |-> {"none", "sticker", "insert", "laser", "unknown"}],
     [id |-> "coffee-kit", name |-> "Coffee Kit", unitPrice |-> 28,
      leadTimeDays |-> 5, minQty |-> 30, maxQty |-> 400,
      eligibleShipping |-> {"bulk", "individual", "unknown"},
      eligibleBranding |-> {"none", "sticker", "insert", "unknown"}],
     [id |-> "throw-blanket", name |-> "Cozy Throw Blanket", unitPrice |-> 35,
      leadTimeDays |-> 10, minQty |-> 25, maxQty |-> 200,
      eligibleShipping |-> {"bulk", "individual", "unknown"},
      eligibleBranding |-> {"none", "insert", "unknown"}],
     [id |-> "wellness-tea-kit", name |-> "Wellness / Tea Kit", unitPrice |-> 24,
      leadTimeDays |-> 6, minQty |-> 25, maxQty |-> 350,
      eligibleShipping |-> {"bulk", "individual", "unknown"},
      eligibleBranding |-> {"none", "sticker", "insert", "unknown"}] >>

\* x ?? "unknown"
OrUnknown(f) == IF f = undefined THEN "unknown" ELSE Get(f)

\* variant of BundleEligible: the whole budget instead of three quarters of it
BundleEligibleFullBudget(b, s) ==
  /\ ~(b.unitPrice * Cents > Get(s.budgetPerUnitUsd))
  /\ ~(Get(s.quantity) < b.minQty * Cents \/ Get(s.quantity) > b.maxQty * Cents)
  /\ OrUnknown(s.shippingType) \in b.eligibleShipping
  /\ OrUnknown(s.branding) \in b.eligibleBranding

\* the filter of suggestBundles; unitPrice > budget * 0.75 in hundredths
BundleEligible(b, s) ==
  /\ ~(4 * b.unitPrice * Cents > 3 * Get(s.budgetPerUnitUsd))
  /\ ~(Get(s.quantity) < b.minQty * Cents \/ Get(s.quantity) > b.maxQty * Cents)
  /\ OrUnknown(s.shippingType) \in b.eligibleShipping
  /\ OrUnknown(s.branding) \in b.eligibleBranding

\* the comparator of the sort: a goes before b (ties keep the catalog order)
BundleBefore(a, b) ==
  IF BUNDLES[a].leadTimeDays # BUNDLES[b].leadTimeDays
  THEN BUNDLES[a].leadTimeDays < BUNDLES[b].leadTimeDays
  ELSE IF BUNDLES[a].unitPrice # BUNDLES[b].unitPrice
  THEN BUNDLES[a].unitPrice > BUNDLES[b].unitPrice
  ELSE a < b

RECURSIVE SortBundles(_)
SortBundles(idx) ==
  IF idx = {} THEN <<>>
  ELSE LET first == CHOOSE a \in idx : \A b \in idx \ {a} : BundleBefore(a, b)
       IN  <<first>> \o SortBundles(idx \ {first})

suggestBundles(s) ==
  IF s.quantity = undefined \/ s.budgetPerUnitUsd = undefined THEN <<>>
  ELSE LET eligible == {i \in 1..Len(BUNDLES) : BundleEligible(BUNDLES[i], s)}
           sorted == SortBundles(eligible)
           top == SubSeq(sorted, 1, Min(3, Len(sorted)))
       IN  [i \in 1..Len(top) |->
              [name |-> BUNDLES[top[i]].name,
               unitPrice |-> BUNDLES[top[i]].unitPrice,
               leadTimeDays |-> BUNDLES[top[i]].leadTimeDays,
               why |-> IF BUNDLES[top[i]].leadTimeDays <= 6
                       THEN Some("Fast turnaround") ELSE undefined]]

\* ------------------------------------------------------------------ questionForField

FIELD_QUESTIONS ==
  [quantity |-> "How many recipients (approximate quantity)?",
   budgetPerUnitUsd |-> "What's your budget per gift (USD)?",
   deadlineText |-> "What delivery deadline are you targeting?",
   shippingType |-> "Should we ship to one location (bulk) or individual addresses?",
   branding |-> "Do you need branding (none, sticker/insert, laser, embroidery)?",
   international |-> "Any international destinations (outside the US)?",
   email |-> "What's the best email or phone to follow up with options?"]

questionForField(field) ==
  IF field \in DOMAIN FIELD_QUESTIONS THEN <<FIELD_QUESTIONS[field]>>
  ELSE <<"What is your ", field, "?">>


\* ------------------------------------------------------------------ the turn handler

\* message.trim().replace(/\s*[.!?]+$/, "")
RECURSIVE StripClosing(_)
StripClosing(m) ==
  IF m # <<>> /\ IsWord(m, Len(m), {".", "!", "?"})
  THEN StripClosing(SubSeq(m, 1, Len(m) - 1))
  ELSE m

\* the alternatives of UNSURE_PATTERN that are anchored at the start only, and
\* the second expression of isUnsurePhrase
UnsureStarts ==
  {<<"i", "don't", "know">>, <<"don't", "know">>, <<"i", "do", "not", "know">>,
   <<"do", "not", "know">>, <<"i'm", "not", "sure">>, <<"im", "not", "sure">>,
   <<"i", "am", "not", "sure">>, <<"no", "idea">>, <<"not", "sure">>,
   <<"unsure">>, <<"no", "clue">>, <<"skip">>, <<"maybe", "later">>,
   <<"later">>, <<"pass">>, <<"dunno">>, <<"rather", "not", "say">>,
   <<"i", "don't", "have", "a", "clue">>, <<"i", "don't", "have", "a", "idea">>,
   <<"i", "don't", "have", "clue">>, <<"i", "don't", "have", "idea">>,
   <<"don't", "have", "a", "clue">>, <<"don't", "have", "a", "idea">>,
   <<"don't", "have", "clue">>, <<"don't", "have", "idea">>,
   <<"i", "do", "not", "have", "a", "clue">>, <<"i", "do", "not", "have", "a", "idea">>,
   <<"i", "do", "not", "have", "clue">>, <<"i", "do", "not", "have", "idea">>,
   <<"do", "not", "have", "a", "clue">>, <<"do", "not", "have", "a", "idea">>,
   <<"do", "not", "have", "clue">>, <<"do", "not", "have", "idea">>}

isUnsurePhrase(message) ==
  LET t == StripClosing(message)
  IN  IF t = <<>> THEN FALSE
      ELSE \/ \E ws \in UnsureStarts : PhraseAt(t, 1, ws)
           \/ t = Words(<<"idk">>)

\* /^\s*\$?(\d+(?:\.\d+)?)\s*$/: the position of the number (0: no match)
numericMatch(trimmed) ==
  IF Len(trimmed) = 1 /\ IsNum(trimmed, 1) THEN 1
  ELSE IF Len(trimmed) = 2 /\ IsWord(trimmed, 1, {"$"}) /\ IsNum(trimmed, 2) THEN 2
  ELSE 0

\* the three bare range expressions
rangeMatch(trimmed) ==
  IF /\ Len(trimmed) = 4 /\ IsWord(trimmed, 1, {"between"}) /\ IsNum(trimmed, 2)
     /\ IsWord(trimmed, 3, {"and"}) /\ IsNum(trimmed, 4)
  THEN [found |-> TRUE, a |-> trimmed[2].v, b |-> trimmed[4].v]
  ELSE IF /\ Len(trimmed) = 3 /\ IsNum(trimmed, 1)
          /\ IsWord(trimmed, 2, {"to", "-"}) /\ IsNum(trimmed, 3)
  THEN [found |-> TRUE, a |-> trimmed[1].v, b |-> trimmed[3].v]
  ELSE [found |-> FALSE, a |-> 0, b |-> 0]

\* Math.round(x) of a number in hundredths
RoundToInteger(x) == ((x + (Cents \div 2)) \div Cents) * Cents

\* the bare number of the message that the handler assigns, as a sequence: n
\* and whether it is the midpoint of a range (<<>>: no bare number above zero)
BareAssignable(message) ==
  LET r == rangeMatch(message)
      k == numericMatch(message)
  IN  IF r.found
      THEN IF r.a > 0 /\ r.b > 0
           THEN <<[n |-> (r.a + r.b + 1) \div 2, isRange |-> TRUE]>>
           ELSE <<>>
      ELSE IF k # 0
      THEN IF message[k].v > 0 THEN <<[n |-> message[k].v, isRange |-> FALSE]>>
           ELSE <<>>
      ELSE <<>>

\* variant of AssignBare: a bare number is always a quantity
AssignBareAsQuantity(n, roundQuantity, s) ==
  [s EXCEPT !.quantity = Some(IF roundQuantity THEN RoundToInteger(n) ELSE n)]

\* a bare number or midpoint n when the budget is unset: quantity first, then
\* budget
AssignBare(n, roundQuantity, s) ==
  IF s.quantity = undefined
  THEN [s EXCEPT !.quantity = Some(IF roundQuantity THEN RoundToInteger(n) ELSE n)]
  ELSE [s EXCEPT !.budgetPerUnitUsd = Some(n)]

\* variant of ApplyExtraction: an unsure message is extracted like any other
ApplyExtractionOfUnsure(message, s) ==
  LET bare == BareAssignable(message)
  IN  IF bare # <<>> /\ s.budgetPerUnitUsd = undefined
      THEN AssignBare(bare[1].n, bare[1].isRange, s)
      ELSE extractFromText(message, s)

\* step 2 of the handler: state1 before any default.  A bare number above zero
\* is assigned when the budget is unset, every other message goes through
\* extractFromText
ApplyExtraction(message, s) ==
  LET bare == BareAssignable(message)
  IN  IF isUnsurePhrase(message) THEN s
      ELSE IF bare # <<>> /\ s.budgetPerUnitUsd = undefined
      THEN AssignBare(bare[1].n, bare[1].isRange, s)
      ELSE extractFromText(message, s)

\* missing.filter((f) => f !== "email")
NonEmail(missing) == SelectSeq(missing, LAMBDA f : f # "email")

Includes(seq, x) == \E i \in 1..Len(seq) : seq[i] = x

\* step 5: the field to ask next ({}: null)
NextField(missing, mode, s) ==
  IF NonEmail(missing) # <<>> THEN Some(Head(NonEmail(missing)))
  ELSE IF /\ mode # "streamlined" /\ s.email = undefined /\ s.phone = undefined
          /\ Includes(missing, "email")
  THEN Some("email")
  ELSE undefined

\* step 5b: the field to ask next after a default was applied
NextFieldAfterSkip(missing) ==
  IF NonEmail(missing) # <<>> THEN Some(Head(NonEmail(missing)))
  ELSE IF Includes(missing, "email") THEN Some("email")
  ELSE undefined

\* variant of ApplySkip: an unsure reply about international destinations
\* counts as international
ApplySkipAsInternational(s, nextField) ==
  IF nextField = Some("branding") THEN [s EXCEPT !.branding = Some("none")]
  ELSE IF nextField = Some("international") THEN [s EXCEPT !.international = Some(TRUE)]
  ELSE s

\* step 5b: the state with the default of the skipped field, if it has one
ApplySkip(s, nextField) ==
  IF nextField = Some("branding") THEN [s EXCEPT !.branding = Some("none")]
  ELSE IF nextField = Some("international") THEN [s EXCEPT !.international = Some(FALSE)]
  ELSE s

HasSkipValue(nextField) == nextField \in {Some("branding"), Some("international")}


\* addresses of the vocabulary that z.string().email() accepts
PlainAddresses == {"zezette@test.com", "bob@corp.com"}

\* ChatStateSchema: strict, so the extra qualification key is rejected
ChatStateSchema(s) ==
  /\ s.quantity # undefined => Get(s.quantity) % Cents = 0 /\ Get(s.quantity) > 0
  /\ s.budgetPerUnitUsd # undefined => Get(s.budgetPerUnitUsd) > 0
  /\ s.shippingType \subseteq {"individual", "bulk", "unknown"}
  /\ s.branding \subseteq {"embroidery", "laser", "insert", "sticker", "none", "unknown"}
  /\ s.international \subseteq BOOLEAN
  /\ s.email \subseteq PlainAddresses
  /\ s.distributionTiming \subseteq {"all_at_once", "over_time", "unknown"}
  /\ s.addressHandling \subseteq {"provided", "handled_by_us", "unknown"}
  /\ s.brandingNeedsQualification = undefined

\* BotResponseSchema.safeParse(r).success for a response the handler assembles
BotResponseSchema(r, s) ==
  /\ ChatStateSchema(s)
  /\ r.mode \in {"streamlined", "assisted", "high_touch"}
  /\ r.complexityScore \in 1..5

DefaultWhy == "Fits your budget and typical lead time."

WithWhy(bundles, why) ==
  [i \in 1..Len(bundles) |->
     [name |-> bundles[i].name, unitPrice |-> bundles[i].unitPrice,
      leadTimeDays |-> bundles[i].leadTimeDays, why |-> why]]

\* the fields the sales summary of the fallback lists, in order
Bullets(s) ==
  Push(s.quantity # undefined, "recipients")
  \o Push(s.budgetPerUnitUsd # undefined, "per gift")
  \o Push(s.deadlineText # undefined, "Deadline")
  \o Push(s.shippingType # undefined, "Shipping")
  \o Push(s.branding # undefined, "Branding")
  \o Push(s.international # undefined, "International")

buildFallbackResponse(state1, mode, complexityScore, missing, nextQuestion, deterministicBundles) ==
  LET assistantMessage ==
        IF nextQuestion # undefined THEN Get(nextQuestion)
        ELSE IF mode = "streamlined" /\ Len(deterministicBundles) > 0
        THEN <<"This looks eligible for a streamlined flow. Here are a few ready-to-ship options. If you'd like, share your email and we'll follow up.">>
        ELSE IF state1.email = undefined /\ state1.phone = undefined
                /\ mode # "streamlined"
        THEN <<"Thanks - what's the best email or phone to follow up with a tailored proposal?">>
        ELSE <<"Thanks - we've got what we need. We'll follow up shortly.">>
      out ==
        [status |-> 200, assistantMessage |-> assistantMessage, mode |-> mode,
         complexityScore |-> complexityScore, missing |-> missing,
         salesSummary |->
           Some(IF Bullets(state1) # <<>> THEN Bullets(state1)
                ELSE <<"Summary of your request.">>),
         bundleSuggestions |-> WithWhy(deterministicBundles, DefaultWhy),
         leadCaptured |-> FALSE, leadId |-> undefined]
  IN  IF ~BotResponseSchema(out, state1)
      THEN [out EXCEPT !.bundleSuggestions = <<>>]
      ELSE out

\* what the message-generation collaborator returned: nothing usable (no key,
\* an exception, no content, unparsable JSON, JSON null), or an object
NoReply == [json |-> FALSE, assistantMessage |-> undefined,
            salesSummary |-> undefined, bundleSuggestions |-> undefined]

\* a bundleSuggestions array of the collaborator: a bundle of the catalog at
\* another price, an invented bundle, then bundles of the catalog in another
\* order, one with a why and one whose why is not a string
LlmBundles ==
  << [name |-> "Coffee Kit", unitPrice |-> 1, leadTimeDays |-> 5,
      why |-> Some("(why of the collaborator)")],
     [name |-> "Gold Bar", unitPrice |-> 2, leadTimeDays |-> 1,
      why |-> Some("(why of the collaborator)")],
     [name |-> "Wellness / Tea Kit", unitPrice |-> 24, leadTimeDays |-> 6,
      why |-> undefined],
     [name |-> "Snack Box", unitPrice |-> 18, leadTimeDays |-> 5,
      why |-> Some("(why of the collaborator)")] >>

LlmReplies ==
  {NoReply,
   [json |-> TRUE, assistantMessage |-> Some(<<"(text of the collaborator)">>),
    salesSummary |-> Some(<<"(summary of the collaborator)">>),
    bundleSuggestions |-> Some(LlmBundles)],
   [json |-> TRUE, assistantMessage |-> Some(<<"(text of the collaborator)">>),
    salesSummary |-> undefined, bundleSuggestions |-> undefined],
   [json |-> TRUE, assistantMessage |-> undefined, salesSummary |-> undefined,
    bundleSuggestions |-> undefined]}

\* the why of bundle b: that of the first entry of the collaborator with the
\* same name, unitPrice and leadTimeDays, when it is a string
WhyFromLlm(b, fromLlm) ==
  LET found == FirstIdx({i \in 1..Len(fromLlm) :
                           /\ fromLlm[i].name = b.name
                           /\ fromLlm[i].unitPrice = b.unitPrice
                           /\ fromLlm[i].leadTimeDays = b.leadTimeDays})
  IN  IF found # 0 /\ fromLlm[found].why # undefined THEN Get(fromLlm[found].why)
      ELSE DefaultWhy

\* variant of BundlesWithLlm: the array of the collaborator is taken as it is
BundlesOfLlm(deterministicBundles, llm) ==
  IF llm.bundleSuggestions # undefined
  THEN [i \in 1..Len(Get(llm.bundleSuggestions)) |->
          [name |-> Get(llm.bundleSuggestions)[i].name,
           unitPrice |-> Get(llm.bundleSuggestions)[i].unitPrice,
           leadTimeDays |-> Get(llm.bundleSuggestions)[i].leadTimeDays,
           why |-> DefaultWhy]]
  ELSE WithWhy(deterministicBundles, DefaultWhy)

\* steps 9-10: the bundleSuggestions of a response made from the reply llm
BundlesWithLlm(deterministicBundles, llm) ==
  IF llm.bundleSuggestions # undefined
  THEN [i \in 1..Len(deterministicBundles) |->
          [name |-> deterministicBundles[i].name,
           unitPrice |-> deterministicBundles[i].unitPrice,
           leadTimeDays |-> deterministicBundles[i].leadTimeDays,
           why |-> WhyFromLlm(deterministicBundles[i], Get(llm.bundleSuggestions))]]
  ELSE WithWhy(deterministicBundles, DefaultWhy)

\* variant of AssembleResponse: the reply of the collaborator is not validated
AssembleResponseUnvalidated(llm, state1, complexity, missing, nextQuestion, deterministicBundles) ==
  LET fallback ==
        buildFallbackResponse(state1, complexity.mode, complexity.score, missing,
                              nextQuestion, deterministicBundles)
      fromLlm ==
        [status |-> 200, assistantMessage |-> Get(llm.assistantMessage),
         mode |-> complexity.mode, complexityScore |-> complexity.score,
         missing |-> missing, salesSummary |-> llm.salesSummary,
         bundleSuggestions |-> BundlesWithLlm(deterministicBundles, llm),
         leadCaptured |-> FALSE, leadId |-> undefined]
  IN  IF llm.json /\ llm.assistantMessage # undefined
      THEN fromLlm
      ELSE fallback

\* steps 9-10: the response before the acknowledgement and the lead
AssembleResponse(llm, state1, complexity, missing, nextQuestion, deterministicBundles) ==
  LET fallback ==
        buildFallbackResponse(state1, complexity.mode, complexity.score, missing,
                              nextQuestion, deterministicBundles)
      fromLlm ==
        [status |-> 200, assistantMessage |-> Get(llm.assistantMessage),
         mode |-> complexity.mode, complexityScore |-> complexity.score,
         missing |-> missing, salesSummary |-> llm.salesSummary,
         bundleSuggestions |-> BundlesWithLlm(deterministicBundles, llm),
         leadCaptured |-> FALSE, leadId |-> undefined]
  IN  IF llm.json /\ llm.assistantMessage # undefined
      THEN IF BotResponseSchema(fromLlm, state1) THEN fromLlm ELSE fallback
      ELSE fallback

\* the dash of the source text is written "-" here, as in the other texts
Acknowledgement == "No problem - we can add that later. "

\* variant of Acknowledge: the assembled message is kept
AcknowledgeNothing(finalResponse, userSaidUnsure, nextQuestion) == finalResponse

\* step 11: the acknowledgement of an unsure reply replaces the message
Acknowledge(finalResponse, userSaidUnsure, nextQuestion) ==
  IF userSaidUnsure /\ nextQuestion # undefined
  THEN [finalResponse EXCEPT
          !.assistantMessage = <<Acknowledgement>> \o Get(nextQuestion)]
  ELSE finalResponse

\* variant of leadComplete: a contact is enough
leadCompleteOfContact(state1, missing) ==
  state1.email # undefined \/ state1.phone # undefined

\* step 12: the lead-capture gate
leadComplete(state1, missing) ==
  /\ state1.email # undefined \/ state1.phone # undefined
  /\ missing = <<>> \/ missing = <<"email">>

\* variant of DecideBundles: bundles whenever nothing but the email is missing
DecideBundlesAnyMode(userSaidUnsure, state1, complexity, missing, nextField) ==
  [userSaidUnsure |-> userSaidUnsure, state1 |-> state1,
   complexity |-> complexity, missing |-> missing, nextField |-> nextField,
   deterministicBundles |->
     IF missing = <<>> \/ missing = <<"email">>
     THEN WithWhy(suggestBundles(state1), undefined)
     ELSE <<>>,
   nextQuestion |->
     IF nextField # undefined THEN Some(questionForField(Get(nextField)))
     ELSE undefined]

\* steps 6-7 of the handler: the bundles and the next question
DecideBundles(userSaidUnsure, state1, complexity, missing, nextField) ==
  [userSaidUnsure |-> userSaidUnsure, state1 |-> state1,
   complexity |-> complexity, missing |-> missing, nextField |-> nextField,
   deterministicBundles |->
     IF /\ complexity.mode = "streamlined"
        /\ missing = <<>> \/ missing = <<"email">>
     THEN WithWhy(suggestBundles(state1), undefined)
     ELSE <<>>,
   nextQuestion |->
     IF nextField # undefined THEN Some(questionForField(Get(nextField)))
     ELSE undefined]

\* step 5b of the handler, on the state with the default of the skipped field
DecideSkipped(userSaidUnsure, skipped, complexity) ==
  DecideBundles(userSaidUnsure, skipped, complexity, nextMissing(skipped),
                NextFieldAfterSkip(nextMissing(skipped)))

\* step 5b of the handler: an unsure reply to a field that has a default
DecideSkip(userSaidUnsure, state1, complexity, missing, nextField) ==
  IF userSaidUnsure /\ nextField # undefined /\ HasSkipValue(nextField)
  THEN DecideSkipped(userSaidUnsure, ApplySkip(state1, nextField), complexity)
  ELSE DecideBundles(userSaidUnsure, state1, complexity, missing, nextField)

\* steps 4-5 of the handler: missing and nextField
DecideField(userSaidUnsure, state1, complexity, missing) ==
  DecideSkip(userSaidUnsure, state1, complexity, missing,
             NextField(missing, complexity.mode, state1))

\* step 3 of the handler: the complexity of state1, before any default
DecideMode(userSaidUnsure, state1) ==
  DecideField(userSaidUnsure, state1, computeComplexity(state1), nextMissing(state1))

\* steps 1-7 of the handler: everything it decides before it asks the
\* message-generation collaborator
Decide(message, s) ==
  DecideMode(isUnsurePhrase(message), ApplyExtraction(message, s))

\* variant of Respond: a failure of the store fails the turn
RespondStoreFatal(d, llm, storeOk, id) ==
  LET assembled ==
        AssembleResponse(llm, d.state1, d.complexity, d.missing, d.nextQuestion,
                         d.deterministicBundles)
      acknowledged == Acknowledge(assembled, d.userSaidUnsure, d.nextQuestion)
      gate == leadComplete(d.state1, d.missing)
      lead == [id |-> id, state |-> d.state1, mode |-> d.complexity.mode,
               complexityScore |-> d.complexity.score,
               reasons |-> d.complexity.reasons]
  IN  [state |-> d.state1,
       local |-> [userSaidUnsure |-> d.userSaidUnsure, nextField |-> d.nextField,
                  reasons |-> d.complexity.reasons, llmJson |-> llm,
                  leadComplete |-> gate, storeOk |-> storeOk],
       resp |-> IF gate /\ storeOk
                THEN [acknowledged EXCEPT !.leadCaptured = TRUE, !.leadId = Some(id)]
                ELSE IF gate
                THEN [acknowledged EXCEPT !.status = 500]
                ELSE acknowledged,
       appended |-> IF gate /\ storeOk THEN <<lead>> ELSE <<>>]

\* steps 9-12 of the handler: the state it returns, its locals, its response
\* and the lead it appends (id: the fresh id of the lead; storeOk: appendLead
\* returns, FALSE: it throws)
Respond(d, llm, storeOk, id) ==
  LET assembled ==
        AssembleResponse(llm, d.state1, d.complexity, d.missing, d.nextQuestion,
                         d.deterministicBundles)
      acknowledged == Acknowledge(assembled, d.userSaidUnsure, d.nextQuestion)
      gate == leadComplete(d.state1, d.missing)
      lead == [id |-> id, state |-> d.state1, mode |-> d.complexity.mode,
               complexityScore |-> d.complexity.score,
               reasons |-> d.complexity.reasons]
  IN  [state |-> d.state1,
       local |-> [userSaidUnsure |-> d.userSaidUnsure, nextField |-> d.nextField,
                  reasons |-> d.complexity.reasons, llmJson |-> llm,
                  leadComplete |-> gate, storeOk |-> storeOk],
       resp |-> IF gate /\ storeOk
                THEN [acknowledged EXCEPT !.leadCaptured = TRUE, !.leadId = Some(id)]
                ELSE acknowledged,
       appended |-> IF gate /\ storeOk THEN <<lead>> ELSE <<>>]

\* one turn of the handler on a well-formed request
Turn(message, s, llm, storeOk, id) == Respond(Decide(message, s), llm, storeOk, id)


\* ------------------------------------------------------------------ sessions

NoLocal ==
  [userSaidUnsure |-> FALSE, nextField |-> undefined, reasons |-> <<>>,
   llmJson |-> NoReply, leadComplete |-> FALSE, storeOk |-> FALSE]

NoResponse ==
  [status |-> 0, assistantMessage |-> <<>>, mode |-> "", complexityScore |-> 0,
   missing |-> <<>>, salesSummary |-> undefined, bundleSuggestions |-> <<>>,
   leadCaptured |-> FALSE, leadId |-> undefined]

\* no request yet
NoBody == [json |-> FALSE, kind |-> "", message |-> "", state |-> "", history |-> ""]

\* a body with a string message, an object state and a history of entries
\* with role and content
WellFormedBody ==
  [json |-> TRUE, kind |-> "object", message |-> "string", state |-> "object",
   history |-> "entries"]

\* the shapes of the bodies sent: what request.json() and typeof see of them
Bodies ==
  {WellFormedBody,
   [WellFormedBody EXCEPT !.json = FALSE],
   [WellFormedBody EXCEPT !.kind = "null"],
   [WellFormedBody EXCEPT !.kind = "string"],
   [WellFormedBody EXCEPT !.message = "number"],
   [WellFormedBody EXCEPT !.message = "undefined"],
   [WellFormedBody EXCEPT !.state = "null"],
   [WellFormedBody EXCEPT !.state = "string"],
   [WellFormedBody EXCEPT !.history = "object"],
   [WellFormedBody EXCEPT !.history = "undefined"],
   [WellFormedBody EXCEPT !.history = "entries, one null"],
   [WellFormedBody EXCEPT !.history = "entries, one without content"],
   [WellFormedBody EXCEPT !.history = "entries, one without role"]}

\* variant of parseBody: the entries of history are not looked at
parseBodyShallow(request) ==
  /\ request.json
  /\ request.kind = "object"
  /\ request.message = "string"
  /\ request.state = "object"
  /\ request.history \in {"entries", "entries, one null",
                           "entries, one without content",
                           "entries, one without role"}

\* request.json() resolves and parseBody returns the three parts
parseBody(request) ==
  /\ request.json
  /\ request.kind = "object"
  /\ request.message = "string"
  /\ request.state = "object"
  /\ request.history \in {"entries", "entries, one null",   \* Array.isArray
                           "entries, one without content",
                           "entries, one without role"}
  /\ request.history = "entries"                            \* history.every

\* the 400 of a body that is not JSON or that parseBody rejects
BadRequest == [NoResponse EXCEPT !.status = 400]

Init ==
  /\ state = EmptyState
  /\ sent = EmptyState
  /\ result = <<>>
  /\ body = NoBody
  /\ msg = <<>>
  /\ local = NoLocal
  /\ resp = NoResponse
  /\ turn = 0
  /\ leads = <<>>
  /\ pc = "session"

\* what the store can do in a turn: appendLead is called only when the gate
\* holds, and then returns (TRUE) or throws (FALSE)
StoreOutcomes(d) ==
  IF leadComplete(d.state1, d.missing) THEN BOOLEAN ELSE {TRUE}

\* variant of Post: a session that already has a lead appends no other one
PostOncePerSession(message, request) ==
  /\ pc = "session"
  /\ turn < MaxTurns
  /\ parseBody(request)
  /\ body' = request
  /\ \E d \in {Decide(message, state)} :
       \E llm \in LlmReplies, storeOk \in StoreOutcomes(d) :
         \E t \in {Respond(d, llm, storeOk, turn + 1)} :
           /\ state' = t.state
           /\ local' = t.local
           /\ resp' = t.resp
           /\ leads' = IF leads = <<>> THEN leads \o t.appended ELSE leads
  /\ sent' = state
  /\ msg' = message
  /\ turn' = turn + 1
  /\ UNCHANGED <<result, pc>>

\* POST /api/chat with a well-formed body; the client sends back the state of
\* the last response
Post(message, request) ==
  /\ pc = "session"
  /\ turn < MaxTurns
  /\ parseBody(request)
  /\ body' = request
  /\ \E d \in {Decide(message, state)} :
       \E llm \in LlmReplies, storeOk \in StoreOutcomes(d) :
         \E t \in {Respond(d, llm, storeOk, turn + 1)} :
           /\ state' = t.state
           /\ local' = t.local
           /\ resp' = t.resp
           /\ leads' = leads \o t.appended
  /\ sent' = state
  /\ msg' = message
  /\ turn' = turn + 1
  /\ UNCHANGED <<result, pc>>

\* POST /api/chat with a malformed body: rejected before any processing
PostMalformed(request) ==
  /\ pc = "session"
  /\ turn < MaxTurns
  /\ ~parseBody(request)
  /\ body' = request
  /\ resp' = BadRequest
  /\ msg' = <<>>
  /\ local' = NoLocal
  /\ turn' = turn + 1
  /\ UNCHANGED <<state, sent, leads, result, pc>>

Next ==
  \/ \E message \in Messages, request \in Bodies : Post(message, request)
  \/ \E request \in Bodies : PostMalformed(request)

Spec == Init /\ [][Next]_vars

\* ------------------------------------------------------------------ functions on their own

\* the ChatStates on which the functions are evaluated
ChatStates ==
  [quantity : {undefined, Some(30 * Cents), Some(250 * Cents)},
   budgetPerUnitUsd : {undefined, Some(45 * Cents)},
   shippingType : {undefined, Some("individual"), Some("bulk"), Some("unknown")},
   branding : {undefined, Some("none"), Some("laser")},
   international : {undefined, Some(TRUE), Some(FALSE)},
   email : {undefined, Some("zezette@test.com")},
   phone : {undefined, Some("415-555-0100")},
   deadlineText : {undefined, Some(Words(<<"asap">>)), Some(Words(<<"mid-December">>))},
   distributionTiming : {undefined, Some("over_time"), Some("all_at_once")},
   addressHandling : {undefined, Some("handled_by_us"), Some("provided")},
   brandingNeedsQualification : {undefined, Some(TRUE)}]

InitFunctions ==
  /\ state \in ChatStates
  /\ sent = state
  /\ msg = <<>>
  /\ local = NoLocal
  /\ resp = NoResponse
  /\ turn = 0
  /\ leads = <<>>
  /\ result = <<>>
  /\ body = NoBody
  /\ pc = "input"

\* computeComplexity(state)
EvalComplexity ==
  /\ pc = "input"
  /\ result' = [fn |-> "computeComplexity", value |-> computeComplexity(state)]
  /\ pc' = "evaluated"
  /\ UNCHANGED <<state, sent, msg, local, resp, turn, leads, body>>

\* nextMissing(state)
EvalMissing ==
  /\ pc = "input"
  /\ result' = [fn |-> "nextMissing", value |-> nextMissing(state)]
  /\ pc' = "evaluated"
  /\ UNCHANGED <<state, sent, msg, local, resp, turn, leads, body>>

NextFunctions == EvalComplexity \/ EvalMissing

SpecFunctions == InitFunctions /\ [][NextFunctions]_vars

\* the ChatStates on which suggestBundles is evaluated: quantities and budgets
\* on both sides of every minQty, maxQty and margin of the catalog
BundleStates ==
  {[EmptyState EXCEPT !.quantity = q, !.budgetPerUnitUsd = b,
                      !.shippingType = sh, !.branding = br] :
     q \in {undefined} \cup {Some(n * Cents) : n \in {24, 25, 50, 200, 201, 450, 1001}},
     b \in {undefined} \cup {Some(c) : c \in {2399, 2400, 3000, 3733, 4666, 4667, 10000}},
     sh \in {undefined, Some("individual"), Some("bulk"), Some("unknown")},
     br \in {undefined, Some("none"), Some("sticker"), Some("insert"),
             Some("laser"), Some("embroidery"), Some("unknown")}}

InitBundles ==
  /\ state \in BundleStates
  /\ sent = state
  /\ msg = <<>>
  /\ local = NoLocal
  /\ resp = NoResponse
  /\ turn = 0
  /\ leads = <<>>
  /\ result = <<>>
  /\ body = NoBody
  /\ pc = "input"

\* suggestBundles(state)
EvalBundles ==
  /\ pc = "input"
  /\ result' = [fn |-> "suggestBundles", value |-> suggestBundles(state)]
  /\ pc' = "evaluated"
  /\ UNCHANGED <<state, sent, msg, local, resp, turn, leads, body>>

NextBundles == EvalBundles

SpecBundles == InitBundles /\ [][NextBundles]_vars

\* ------------------------------------------------------------------ extractFromText on its own

\* the prior states on which extractFromText is evaluated
ExtractStates ==
  [quantity : {undefined, Some(30 * Cents)},
   budgetPerUnitUsd : {undefined, Some(45 * Cents)},
   shippingType : {undefined, Some("individual"), Some("bulk")},
   branding : {undefined, Some("none"), Some("laser")},
   international : {undefined, Some(TRUE), Some(FALSE)},
   email : {undefined, Some("zezette@test.com")},
   phone : {undefined},
   deadlineText : {undefined, Some(Words(<<"mid-December">>))},
   distributionTiming : {undefined, Some("over_time")},
   addressHandling : {undefined, Some("provided")},
   brandingNeedsQualification : {undefined, Some(TRUE)}]

InitExtract ==
  /\ state \in ExtractStates
  /\ msg \in ExtractTexts
  /\ sent = state
  /\ local = NoLocal
  /\ resp = NoResponse
  /\ turn = 0
  /\ leads = <<>>
  /\ result = <<>>
  /\ body = NoBody
  /\ pc = "input"

\* extractFromText(msg, state)
EvalExtract ==
  /\ pc = "input"
  /\ result' = [fn |-> "extractFromText", value |-> extractFromText(msg, state)]
  /\ pc' = "evaluated"
  /\ UNCHANGED <<state, sent, msg, local, resp, turn, leads, body>>

\* extractFromText(msg, extractFromText(msg, state))
EvalExtractAgain ==
  /\ pc = "input"
  /\ result' = [fn |-> "extractFromText, twice",
                value |-> extractFromText(msg, extractFromText(msg, state))]
  /\ pc' = "evaluated"
  /\ UNCHANGED <<state, sent, msg, local, resp, turn, leads, body>>

NextExtract == EvalExtract \/ EvalExtractAgain

SpecExtract == InitExtract /\ [][NextExtract]_vars

\* ------------------------------------------------------------------ processTurn, the schema-driven flow

\* user messages of the schema-driven flow
SchemaTexts == {"", "  ", "hello", "Bob@Corp.com", "42 units", "www.acme.com", "red please"}

\* String.prototype.trim on the messages
trim(text) == IF text = "  " THEN "" ELSE text

null == {}

\* /[a-zA-Z0-9._%+\-]+@[a-zA-Z0-9.\-]+\.[a-zA-Z]{2,}/ on the messages
EmailIn(trimmed) ==
  IF trimmed = "Bob@Corp.com" THEN Some(toLowerCase(trimmed)) ELSE null

\* /https?:\/\/[^\s"'<>]+/i, then the bare domain
\* /^(?:www\.)?[a-zA-Z0-9\-]+\.[a-zA-Z]{2,}(?:\/\S*)?$/ with "www." replaced
UrlIn(trimmed) ==
  IF trimmed = "www.acme.com" THEN Some("https://acme.com") ELSE null

\* /-?\d+(?:\.\d+)?/ on the messages
NumberIn(trimmed) ==
  IF trimmed = "42 units" THEN Some("42") ELSE null

\* lower.includes(o.toLowerCase()) on the messages and the options
OptionIncluded(trimmed, o) == <<trimmed, o>> \in {<<"red please", "Red">>}

\* field.options.find(...): the first option the text includes
OptionIn(trimmed, options) ==
  LET hits == {i \in 1..Len(options) : OptionIncluded(trimmed, options[i])}
  IN  IF hits = {} THEN null
      ELSE Some(options[CHOOSE i \in hits : \A j \in hits : i <= j])

\* _extractField: the value of one field in a text, or null
extractField(text, field) ==
  LET trimmed == trim(text)
  IN  IF trimmed = "" THEN null
      ELSE CASE field.type = "email" -> EmailIn(trimmed)
             [] field.type = "url" -> UrlIn(trimmed)
             [] field.type = "number" -> NumberIn(trimmed)
             [] field.type = "select" ->
                  IF field.options = <<>> THEN Some(trimmed)
                  ELSE OptionIn(trimmed, field.options)
             [] OTHER -> Some(trimmed)

\* the property names every object inherits from Object.prototype
ObjectPrototypeKeys ==
  {"constructor", "hasOwnProperty", "isPrototypeOf", "propertyIsEnumerable",
   "toLocaleString", "toString", "valueOf", "__proto__"}

\* f.key in session.collectedFields: the in operator finds own and inherited
\* properties
IsCollected(session, f) ==
  f.key \in DOMAIN session.collectedFields \cup ObjectPrototypeKeys

\* Math.round(n / d) for n >= 0 and d > 0
RoundDiv(n, d) == (2 * n + d) \div (2 * d)

\* _schemaComplexity, in tenths (userTurns: the user messages of the session)
schemaComplexity(session, schema) ==
  LET required == {i \in 1..Len(schema) : schema[i].required}
      remaining == {i \in required : ~IsCollected(session, schema[i])}
      extraTurns == Max(0, session.userTurns - Cardinality(required))
  IN  IF required = {} THEN 0
      ELSE RoundDiv(Cardinality(remaining) * 70
                      + Min(30, extraTurns * 3) * Cardinality(required),
                    Cardinality(required))

\* _nextMissingField
nextMissingField(session, schema) ==
  LET missingRequired ==
        SelectSeq(schema, LAMBDA f : f.required /\ ~IsCollected(session, f))
      missingOptional ==
        SelectSeq(schema, LAMBDA f : ~f.required /\ ~IsCollected(session, f))
  IN  IF missingRequired # <<>> THEN Some(missingRequired[1])
      ELSE IF missingOptional # <<>> THEN Some(missingOptional[1])
      ELSE null

buildAskMessage(field) == <<"Got it! What is your ", field.label, "?">>

buildRepromptMessage(field) ==
  <<"I didn't catch that - could you share your ", field.label, "?">>

buildFinalizeMessage(session) ==
  <<"Thanks! I've collected all ", Cardinality(DOMAIN session.collectedFields),
    " of information. Your intake is complete.">>

\* the branch of processTurn that stores the extracted value
StoreExtracted(target, extracted, session, schema, now) ==
  LET newCollected == [key |-> target.key, value |-> extracted, extractedAt |-> now]
      updatedCollectedFields ==
        [k \in DOMAIN session.collectedFields \cup {target.key} |->
           IF k = target.key THEN newCollected ELSE session.collectedFields[k]]
      partialSession ==
        [session EXCEPT !.collectedFields = updatedCollectedFields,
                        !.updatedAt = now]
      nextField == nextMissingField(partialSession, schema)
  IN  IF nextField = null
      THEN [action |-> "finalize", targetField |-> undefined,
            message |-> buildFinalizeMessage(partialSession),
            updatedSession |->
              [partialSession EXCEPT !.status = "complete", !.complexity = 0]]
      ELSE [action |-> "ask", targetField |-> nextField,
            message |-> buildAskMessage(Get(nextField)),
            updatedSession |->
              [partialSession EXCEPT
                 !.complexity = schemaComplexity(partialSession, schema)]]

\* processTurn (now: the clock reading of new Date())
processTurn(userMessage, session, schema, now) ==
  LET target == nextMissingField(session, schema)
  IN  IF target = null
      THEN [action |-> "finalize", targetField |-> undefined,
            message |-> buildFinalizeMessage(session),
            updatedSession |->
              [session EXCEPT !.status = "complete", !.complexity = 0,
                              !.updatedAt = now]]
      ELSE IF extractField(userMessage, Get(target)) = null
      THEN [action |-> "confirm", targetField |-> target,
            message |-> buildRepromptMessage(Get(target)),
            updatedSession |-> [session EXCEPT !.updatedAt = now]]
      ELSE StoreExtracted(Get(target),
                          Get(extractField(userMessage, Get(target))),
                          session, schema, now)

IntakeField(key, type, required, options) ==
  [key |-> key, label |-> key, type |-> type, required |-> required,
   options |-> options]

\* the schemas of the runs: required and optional fields interleaved, every
\* field type, a select without options, optional fields only, a key that is
\* also a property of Object.prototype, no field at all
Schemas ==
  { << IntakeField("size", "number", FALSE, <<>>),
       IntakeField("contactEmail", "email", TRUE, <<>>),
       IntakeField("colour", "select", TRUE, <<"Red", "Blue">>),
       IntakeField("note", "text", FALSE, <<>>) >>,
    << IntakeField("site", "url", TRUE, <<>>),
       IntakeField("plan", "select", FALSE, <<>>) >>,
    << IntakeField("note", "text", FALSE, <<>>),
       IntakeField("size", "number", FALSE, <<>>) >>,
    << IntakeField("constructor", "text", TRUE, <<>>),
       IntakeField("note", "text", FALSE, <<>>) >>,
    << >> }

Keys(schema) == {schema[i].key : i \in 1..Len(schema)}

\* the sessions a run starts from, for a schema: any of its fields collected
\* before the clock started, any status
IntakeSessions(schema) ==
  {[collectedFields |-> [k \in ks |-> [key |-> k, value |-> "earlier", extractedAt |-> 0]],
    status |-> st, complexity |-> 0, userTurns |-> ut, updatedAt |-> 0] :
     ks \in SUBSET Keys(schema), st \in {"active", "complete", "abandoned"},
     ut \in {0, 4}}

InitSchema ==
  /\ \E schema \in Schemas :
       /\ local = [schema |-> schema]
       /\ state \in IntakeSessions(schema)
  /\ sent = state
  /\ msg = ""
  /\ resp = NoResponse
  /\ turn = 0
  /\ leads = <<>>
  /\ result = <<>>
  /\ body = NoBody
  /\ pc = "schema"

\* one call of processTurn by a caller that keeps the updated session
ProcessTurn(userMessage) ==
  /\ pc = "schema"
  /\ turn < MaxTurns
  /\ result' = processTurn(userMessage, state, local.schema, turn + 1)
  /\ state' = result'.updatedSession
  /\ sent' = state
  /\ msg' = userMessage
  /\ turn' = turn + 1
  /\ UNCHANGED <<local, resp, leads, body, pc>>

NextSchema == \E userMessage \in SchemaTexts : ProcessTurn(userMessage)

SpecSchema == InitSchema /\ [][NextSchema]_vars

\* ------------------------------------------------------------------ appendLead, concurrent

\* the requests whose handlers run appendLead at the same time
MaxRequests == 2

\* the calls of appendLead in one run
MaxAppends == 3

Requests == 1..MaxRequests

\* the locals of appendLead in a request that is not inside it
Idle == [at |-> "idle", id |-> 0, lead |-> <<>>, existing |-> <<>>]

\* the arguments of appendLead: a complete state with a contact
LeadStates ==
  {[EmptyState EXCEPT !.quantity = Some(30 * Cents),
                      !.budgetPerUnitUsd = Some(45 * Cents),
                      !.deadlineText = Some(Words(<<"asap">>)),
                      !.shippingType = Some("unknown"),
                      !.branding = Some("none"),
                      !.email = e] :
     e \in {Some("zezette@test.com"), Some("bob@corp.com")}}

\* const lead = { id, createdAt, state, mode, complexityScore, reasons, history }
Lead(id, state1, complexity) ==
  [id |-> id, state |-> state1, mode |-> complexity.mode,
   complexityScore |-> complexity.score, reasons |-> complexity.reasons]

InitStore ==
  /\ state = EmptyState
  /\ sent = EmptyState
  /\ msg = <<>>
  /\ resp = NoResponse
  /\ turn = 0
  /\ leads = <<>>
  /\ local = [r \in Requests |-> Idle]
  /\ result = {}
  /\ body = NoBody
  /\ pc = "store"

\* appendLead up to its first await on the file: the id is generated and the
\* record built
AppendStart(r) ==
  /\ pc = "store"
  /\ local[r].at = "idle"
  /\ turn < MaxAppends
  /\ \E s \in LeadStates :
       local' = [local EXCEPT ![r] =
                   [at |-> "read", id |-> turn + 1,
                    lead |-> <<Lead(turn + 1, s, computeComplexity(s))>>,
                    existing |-> <<>>]]
  /\ turn' = turn + 1
  /\ UNCHANGED <<state, sent, msg, resp, leads, result, body, pc>>

\* fs.readFile resolves: existing is the content of the file, and the record
\* is pushed
AppendRead(r) ==
  /\ pc = "store"
  /\ local[r].at = "read"
  /\ local' = [local EXCEPT ![r].at = "write",
                            ![r].existing = leads \o local[r].lead]
  /\ UNCHANGED <<state, sent, msg, resp, turn, leads, result, body, pc>>

\* fs.writeFile resolves: the file holds existing, and the id is returned
AppendWrite(r) ==
  /\ pc = "store"
  /\ local[r].at = "write"
  /\ leads' = local[r].existing
  /\ result' = result \cup {local[r].id}
  /\ local' = [local EXCEPT ![r] = Idle]
  /\ UNCHANGED <<state, sent, msg, resp, turn, body, pc>>

NextStore ==
  \E r \in Requests : AppendStart(r) \/ AppendRead(r) \/ AppendWrite(r)

SpecStore == InitStore /\ [][NextStore]_vars

\* ------------------------------------------------------------------ properties

\* the fields of a ChatState
Fields ==
  {"quantity", "budgetPerUnitUsd", "shippingType", "branding", "international",
   "email", "phone", "deadlineText", "distributionTiming", "addressHandling"}

Evaluated(fn) == pc = "evaluated" /\ result.fn = fn

\* the last request was well formed and went through the handler
Answered == pc = "session" /\ resp.status = 200

\* the field the handler would ask for state s before any default
FieldToAsk(s) == NextField(nextMissing(s), computeComplexity(s).mode, s)

\* C1: for every ChatState, the brandingNeedsQualification flag included,
\* computeComplexity returns an integer score with 1 <= score <= 5
C1_ScoreInRange ==
  Evaluated("computeComplexity") => result.value.score \in 1..5

\* a state in which more rules fire than the scale has room for
C1_Witness ==
  /\ Evaluated("computeComplexity")
  /\ Len(result.value.reasons) >= 6
  /\ result.value.score = 5

\* C2: the tier is streamlined for a score of 1-2, assisted for 3-4 and
\* high_touch for 5, except that it is assisted whatever the score whenever
\* brandingNeedsQualification is true
C2_TierMapping ==
  Evaluated("computeComplexity") =>
    LET score == result.value.score
        mode == result.value.mode
    IN  IF state.brandingNeedsQualification = Some(TRUE)
        THEN mode = "assisted"
        ELSE /\ score \in {1, 2} => mode = "streamlined"
             /\ score \in {3, 4} => mode = "assisted"
             /\ score = 5 => mode = "high_touch"
             /\ mode \in {"streamlined", "assisted", "high_touch"}

\* the override at work on a score of 5
C2_Witness ==
  /\ Evaluated("computeComplexity")
  /\ state.brandingNeedsQualification = Some(TRUE)
  /\ result.value.score = 5
  /\ result.value.mode = "assisted"

\* the order in which nextMissing lists the fields
MissingOrder ==
  <<"quantity", "budgetPerUnitUsd", "deadlineText", "shippingType", "branding",
    "international", "distributionTiming", "addressHandling", "email">>

C3_NeverCleared ==
  Answered =>
    \A f \in Fields :
      (sent[f] # undefined /\ state[f] = undefined) =>
        /\ f = "branding"
        /\ uncertainBranding(msg)
        /\ state.brandingNeedsQualification = Some(TRUE)

\* a turn that clears a branding given earlier
C3_Witness ==
  /\ Answered
  /\ sent.branding # undefined
  /\ state.branding = undefined
  /\ state.brandingNeedsQualification = Some(TRUE)
  /\ \E f \in Fields \ {"branding"} : sent[f] # undefined

C7_UnsureNeverBlocks ==
  [][(/\ Answered
      /\ local.nextField # undefined
      /\ resp'.status = 200
      /\ isUnsurePhrase(msg'))
     => local'.nextField # local.nextField]_vars

\* the number or the midpoint of a bare numeric message, in hundredths
BareNumber(m) ==
  IF rangeMatch(m).found THEN (rangeMatch(m).a + rangeMatch(m).b + 1) \div 2
  ELSE m[numericMatch(m)].v

IsBare(m) == rangeMatch(m).found \/ numericMatch(m) # 0

\* the numbers of a bare numeric message are all above zero
BarePositive(m) ==
  IF rangeMatch(m).found THEN rangeMatch(m).a > 0 /\ rangeMatch(m).b > 0
  ELSE m[numericMatch(m)].v > 0

\* the routing of a bare numeric message m with value n from the state sent
BareRouting(m, n) ==
  /\ (sent.quantity = undefined /\ sent.budgetPerUnitUsd = undefined) =>
       state = [sent EXCEPT !.quantity =
                  Some(IF rangeMatch(m).found THEN RoundToInteger(n) ELSE n)]
  /\ (sent.quantity # undefined /\ sent.budgetPerUnitUsd = undefined) =>
       state = [sent EXCEPT !.budgetPerUnitUsd = Some(n)]
  /\ sent.budgetPerUnitUsd # undefined => state = extractFromText(m, sent)

\* a bare number leaves a quantity or a budget that is set as it is
BareNeverOverwrites ==
  (Answered /\ numericMatch(msg) # 0 /\ ~isUnsurePhrase(msg)) =>
    /\ sent.quantity # undefined => state.quantity = sent.quantity
    /\ sent.budgetPerUnitUsd # undefined =>
         state.budgetPerUnitUsd = sent.budgetPerUnitUsd

\* C8 as stated: every bare number or range is a quantity when neither quantity
\* nor budget is set, a budget when only the quantity is set, and otherwise goes
\* through extractFromText; a bare number never overwrites either
C8_AnyBareNumber ==
  /\ (Answered /\ IsBare(msg) /\ ~isUnsurePhrase(msg)) =>
       BareRouting(msg, BareNumber(msg))
  /\ BareNeverOverwrites

\* C8: a bare number or range whose numbers are above zero is a quantity (a
\* range: its midpoint rounded to an integer) when neither quantity nor budget is
\* set, a budget (a range: its midpoint in cents) when only the quantity is set,
\* and otherwise goes through extractFromText, as does a bare number or range
\* with a zero; a bare number never overwrites a quantity or budget that is set
C8_PositiveBareNumber ==
  /\ (Answered /\ IsBare(msg) /\ ~isUnsurePhrase(msg)) =>
       IF BarePositive(msg) THEN BareRouting(msg, BareNumber(msg))
       ELSE state = extractFromText(msg, sent)
  /\ BareNeverOverwrites

\* the second of two bare numeric replies from the empty state
C8_Witness ==
  /\ Answered
  /\ turn = 2
  /\ numericMatch(msg) # 0
  /\ sent = [EmptyState EXCEPT !.quantity = Some(30 * Cents)]
  /\ state = [sent EXCEPT !.budgetPerUnitUsd = Some(45 * Cents)]

\* C9: the field to ask is the first entry of missing other than email, and
\* email only when nothing else is missing, the tier is not streamlined and
\* neither email nor phone is present; a streamlined turn never asks for email
C9_NextFieldRule ==
  Answered =>
    LET others == SelectSeq(resp.missing, LAMBDA f : f # "email")
    IN  /\ local.nextField =
             IF others # <<>> THEN Some(Head(others))
             ELSE IF /\ resp.mode # "streamlined"
                     /\ state.email = undefined /\ state.phone = undefined
                     /\ Includes(resp.missing, "email")
             THEN Some("email")
             ELSE undefined
        /\ resp.mode = "streamlined" => local.nextField # Some("email")

\* name, unitPrice and leadTimeDays of a list of bundles
Triples(bundles) == WithWhy(bundles, undefined)

\* C10: a response carries bundle suggestions only if the tier is streamlined
\* and missing is empty or exactly email, and then the suggestions are the
\* result of the bundle matcher on the returned state
C10_BundleGate ==
  Answered =>
    LET eligible ==
          /\ resp.mode = "streamlined"
          /\ resp.missing = <<>> \/ resp.missing = <<"email">>
    IN  /\ resp.bundleSuggestions # <<>> => eligible
        /\ eligible => Triples(resp.bundleSuggestions) = Triples(suggestBundles(state))

\* a bundle of the catalog satisfies the four conditions for state s
\* (prices in units, quantity and budget in hundredths)
Fits(b, s) ==
  /\ 4 * b.unitPrice * Cents <= 3 * Get(s.budgetPerUnitUsd)
  /\ b.minQty * Cents <= Get(s.quantity) /\ Get(s.quantity) <= b.maxQty * Cents
  /\ (IF s.shippingType = undefined THEN "unknown" ELSE Get(s.shippingType))
       \in b.eligibleShipping
  /\ (IF s.branding = undefined THEN "unknown" ELSE Get(s.branding))
       \in b.eligibleBranding

\* a ranks strictly before b: shorter lead time, or equal lead time and a
\* higher unit price
RanksBefore(a, b) ==
  \/ a.leadTimeDays < b.leadTimeDays
  \/ a.leadTimeDays = b.leadTimeDays /\ a.unitPrice > b.unitPrice

\* the bundles of the catalog that fit state s
Fitting(s) == {i \in 1..Len(BUNDLES) : Fits(BUNDLES[i], s)}

\* the bundle of the catalog that a suggestion was made from
Origin(sug) ==
  {i \in 1..Len(BUNDLES) : /\ BUNDLES[i].name = sug.name
                           /\ BUNDLES[i].unitPrice = sug.unitPrice
                           /\ BUNDLES[i].leadTimeDays = sug.leadTimeDays}

\* C11: suggestBundles returns nothing unless quantity and budgetPerUnitUsd are
\* both set; otherwise it returns the first three (or fewer) of the bundles
\* that fit (price within 0.75 x budget, quantity within [minQty, maxQty],
\* shipping and branding listed, unknown when unset), by lead time ascending
\* then unit price descending, and no fitting bundle left out ranks before a
\* returned one
C11_SuggestBundles ==
  Evaluated("suggestBundles") =>
    LET out == result.value
        returned == UNION {Origin(out[i]) : i \in 1..Len(out)}
    IN  IF state.quantity = undefined \/ state.budgetPerUnitUsd = undefined
        THEN out = <<>>
        ELSE /\ Len(out) = Min(3, Cardinality(Fitting(state)))
             /\ \A i \in 1..Len(out) : Cardinality(Origin(out[i])) = 1
             /\ Cardinality(returned) = Len(out)
             /\ returned \subseteq Fitting(state)
             /\ \A i \in 1..Len(out) : \A j \in 1..Len(out) :
                  i < j => ~RanksBefore(out[j], out[i])
             /\ \A k \in Fitting(state) \ returned : \A i \in 1..Len(out) :
                  ~RanksBefore(BUNDLES[k], out[i])

\* three bundles are returned while more than three fit
C11_Witness ==
  /\ Evaluated("suggestBundles")
  /\ Len(result.value) = 3
  /\ Cardinality(Fitting(state)) > 3

\* a lead was appended to the store in the last turn (its id is the id
\* generated in that turn)
AppendedNow == leads # <<>> /\ leads[Len(leads)].id = turn

\* the lead-capture gate on the returned state and the returned missing list
Gate ==
  /\ state.email # undefined \/ state.phone # undefined
  /\ resp.missing = <<>> \/ resp.missing = <<"email">>

\* C12: a turn persists a lead and returns leadCaptured = true with the
\* generated id exactly when, on the returned state, email or phone is present
\* and missing is empty or exactly <<"email">>, and the store write succeeds;
\* no lead is persisted while a non-contact field is missing or without contact
C12_LeadGate ==
  Answered =>
    /\ AppendedNow <=> (Gate /\ local.storeOk)
    /\ resp.leadCaptured <=> AppendedNow
    /\ AppendedNow => /\ resp.leadId = Some(leads[Len(leads)].id)
                      /\ leads[Len(leads)].state = state
    /\ ~AppendedNow => resp.leadId = undefined
    /\ resp.missing = nextMissing(state)

\* a lead is persisted in a turn whose returned state has a phone, no email
\* and nothing missing
C12_Witness ==
  /\ Answered /\ AppendedNow /\ resp.leadCaptured
  /\ resp.missing = <<>>
  /\ state.phone # undefined /\ state.email = undefined

\* the ids of the leads in the store
LeadIds == {leads[i].id : i \in 1..Len(leads)}

\* C13: no idempotency key: with a working store every turn that satisfies the
\* lead-capture gate appends exactly one record with an id of its own, every
\* other turn appends none, so the records of a session count its qualifying
\* turns (a session that stays complete gets one more record per turn)
C13_OneLeadPerQualifyingTurn ==
  [][ IF Answered' /\ Gate' /\ local'.storeOk
      THEN /\ Len(leads') = Len(leads) + 1
           /\ SubSeq(leads', 1, Len(leads)) = leads
           /\ leads'[Len(leads')].id \notin LeadIds
           /\ leads'[Len(leads')].state = state'
      ELSE leads' = leads ]_vars

\* two records of the same state, from two turns of a session that stayed
\* complete
C13_Witness ==
  /\ Answered /\ AppendedNow
  /\ Len(leads) >= 2
  /\ leads[Len(leads)].state = leads[Len(leads) - 1].state
  /\ leads[Len(leads)].id # leads[Len(leads) - 1].id

\* C14: the lead store is append-only under any interleaving of appendLead
\* calls: every lead whose id was returned to a caller is in the store, and no
\* stored record is removed or overwritten
C14_AppendOnly ==
  [][ /\ \A id \in result' : \E i \in 1..Len(leads') : leads'[i].id = id
      /\ \A i \in 1..Len(leads) : \E j \in 1..Len(leads') : leads'[j] = leads[i]
    ]_vars

\* the last turn satisfied the lead-capture gate and its store write failed
StoreFailed == pc = "session" /\ local.leadComplete /\ ~local.storeOk

\* the same turn (same request, same reply of the collaborator) with a store
\* that works
WithWorkingStore == Turn(msg, sent, local.llmJson, TRUE, turn)

\* C15: a failure of the lead store in a turn that satisfies the gate is
\* swallowed: the turn returns its normal response, with the same state, tier,
\* score, missing list and assistant message, without leadId and without
\* leadCaptured = true, and no error
C15_StoreFailureSwallowed ==
  StoreFailed =>
    /\ resp.status = 200
    /\ resp.leadId = undefined /\ resp.leadCaptured = FALSE
    /\ ~AppendedNow
    /\ \E t \in {WithWorkingStore} :
         /\ state = t.state
         /\ resp = [t.resp EXCEPT !.leadCaptured = FALSE, !.leadId = undefined]
         /\ t.resp.leadCaptured

\* the store failed in a turn whose state has a contact and nothing missing
C15_Witness ==
  /\ StoreFailed /\ Answered
  /\ state.email # undefined
  /\ resp.missing = <<>>
  /\ ~resp.leadCaptured

\* the last turn could not use a reply of the collaborator: none (not
\* configured, an exception, unparsable), one without a string
\* assistantMessage, or an assembled response that fails validation
FellBack ==
  /\ Answered
  /\ \/ ~local.llmJson.json
     \/ local.llmJson.assistantMessage = undefined
     \/ ~ChatStateSchema(state)

\* the closing lines of the fallback for a tier
ClosingLines(mode) ==
  IF mode = "streamlined"
  THEN {<<"This looks eligible for a streamlined flow. Here are a few ready-to-ship options. If you'd like, share your email and we'll follow up.">>,
        <<"Thanks - we've got what we need. We'll follow up shortly.">>}
  ELSE {<<"Thanks - what's the best email or phone to follow up with a tailored proposal?">>,
        <<"Thanks - we've got what we need. We'll follow up shortly.">>}

\* the same turn with a collaborator whose reply is used
WithCollaborator ==
  Turn(msg, sent,
       [json |-> TRUE, assistantMessage |-> Some(<<"(text of the collaborator)">>),
        salesSummary |-> undefined, bundleSuggestions |-> undefined],
       local.storeOk, turn)

\* state, tier, score and missing list are those of the turn whose
\* collaborator replied, and no error is returned
SameDecision ==
  /\ resp.status = 200
  /\ \E t \in {WithCollaborator} :
       /\ state = t.state
       /\ resp.mode = t.resp.mode
       /\ resp.complexityScore = t.resp.complexityScore
       /\ resp.missing = t.resp.missing

\* C16 as stated: without a usable reply of the collaborator the turn returns
\* no error but the fallback, whose assistant message is the next question when
\* there is one and otherwise a closing line of the tier, with the same state,
\* tier, score and missing list
C16_FallbackMessage ==
  FellBack =>
    /\ SameDecision
    /\ IF local.nextField # undefined
       THEN resp.assistantMessage = questionForField(Get(local.nextField))
       ELSE resp.assistantMessage \in ClosingLines(resp.mode)

\* C16 amended: the same, where the next question is preceded by the
\* acknowledgement when the message of the turn was an unsure phrase
C16_FallbackMessageOrAcknowledgement ==
  FellBack =>
    /\ SameDecision
    /\ IF local.nextField # undefined
       THEN resp.assistantMessage =
              IF local.userSaidUnsure
              THEN <<Acknowledgement>> \o questionForField(Get(local.nextField))
              ELSE questionForField(Get(local.nextField))
       ELSE resp.assistantMessage \in ClosingLines(resp.mode)

\* a reply of the collaborator was dropped because the assembled response
\* fails validation, and the fallback closes with the options line
C16_Witness ==
  /\ FellBack
  /\ local.llmJson.json /\ local.llmJson.assistantMessage # undefined
  /\ local.nextField = undefined
  /\ resp.mode = "streamlined"
  /\ resp.assistantMessage # <<"Thanks - we've got what we need. We'll follow up shortly.">>

\* the same request answered with each reply of the collaborator
WithReplies ==
  {Respond(d, llm, local.storeOk, turn) : d \in {Decide(msg, sent)}, llm \in LlmReplies}

C18_QuantityPositiveInteger ==
  Answered =>
    /\ state.quantity # undefined =>
         Get(state.quantity) > 0 /\ Get(state.quantity) % Cents = 0
    /\ state.budgetPerUnitUsd # undefined => Get(state.budgetPerUnitUsd) > 0

\* the nine rules in their order: whether each fires on state s
Fires(s) ==
  << s.budgetPerUnitUsd = undefined,
     s.shippingType = {"individual"},
     s.distributionTiming = {"over_time"},
     s.addressHandling = {"handled_by_us"},
     s.branding \in {{"laser"}, {"embroidery"}},
     s.quantity # {} /\ \A q \in s.quantity : q > 200 * Cents,
     s.international = {TRUE},
     s.deadlineText # {} /\ \A t \in s.deadlineText : _isTightDeadline(t),
     s.brandingNeedsQualification = {TRUE} >>

\* their deltas
Deltas == <<1, 2, 1, 1, 1, 1, 2, 1, 1>>

\* their reasons
Reasons ==
  << "Budget not provided", "Individual shipping",
     "Storage and distribution over time",
     "Address collection and distribution handled by us",
     "High-touch branding (laser/embroidery)", "Large quantity",
     "International shipping", "Tight deadline", "Branding needs clarification" >>

\* 1 plus the deltas of the rules that fire, before the clamp
RawScore(s) ==
  LET f == Fires(s)
  IN  1 + (IF f[1] THEN Deltas[1] ELSE 0) + (IF f[2] THEN Deltas[2] ELSE 0)
        + (IF f[3] THEN Deltas[3] ELSE 0) + (IF f[4] THEN Deltas[4] ELSE 0)
        + (IF f[5] THEN Deltas[5] ELSE 0) + (IF f[6] THEN Deltas[6] ELSE 0)
        + (IF f[7] THEN Deltas[7] ELSE 0) + (IF f[8] THEN Deltas[8] ELSE 0)
        + (IF f[9] THEN Deltas[9] ELSE 0)

\* the reasons of the rules that fire, in rule order
FiredReasons(s) ==
  LET f == Fires(s)
      Fired(i) == f[i]
      idx == SelectSeq(<<1, 2, 3, 4, 5, 6, 7, 8, 9>>, Fired)
  IN  [k \in 1..Len(idx) |-> Reasons[idx[k]]]

C20_UnsureQuantityDefault ==
  (/\ Answered
   /\ isUnsurePhrase(msg)
   /\ \A f \in Fields : sent[f] = undefined
   /\ FieldToAsk(sent) = Some("quantity")) =>
    /\ state.quantity = Some(50 * Cents)
    /\ resp.assistantMessage # <<>>
    /\ Head(resp.assistantMessage) = Acknowledgement

\* the last turn started from a state with nothing missing
WasComplete == Answered /\ nextMissing(sent) = <<>>

\* C21 as stated: a session is terminal once nothing is missing: from a state
\* for which nextMissing is empty no later turn returns a state for which it is
\* not
C21_Terminal == WasComplete => nextMissing(state) = <<>>

\* C21 amended: from a state with nothing missing, a turn returns a state with
\* something missing only when its message changes shippingType or, not being
\* an unsure phrase, clears branding under the uncertain-branding rule; what is
\* missing then is branding or a conditional field, never quantity, budget,
\* deadline, shippingType or the contact
C21_ReopenedOnlyByShippingOrBranding ==
  WasComplete =>
    /\ \A i \in 1..Len(nextMissing(state)) :
         nextMissing(state)[i] \in {"branding", "international",
                                    "distributionTiming", "addressHandling"}
    /\ nextMissing(state) # <<>> =>
         \/ state.shippingType # sent.shippingType
         \/ /\ uncertainBranding(msg) /\ ~isUnsurePhrase(msg)
            /\ state.branding = undefined /\ sent.branding # undefined

\* a complete bulk session is reopened by a message that changes the shipping
\* type to individual
C21_Witness ==
  /\ WasComplete
  /\ nextMissing(state) # <<>>
  /\ sent.shippingType = Some("bulk") /\ state.shippingType = Some("individual")

\* the body is malformed: not JSON, not an object, a message that is not a
\* string, a state that is not an object, or a history that is not an array of
\* entries with role and content
Malformed(request) ==
  \/ ~request.json
  \/ request.kind # "object"
  \/ request.message # "string"
  \/ request.state # "object"
  \/ request.history # "entries"

C23_Idempotent ==
  Evaluated("extractFromText, twice") =>
    /\ result.value = extractFromText(msg, state)
    /\ \A f \in Fields :
         extractFromText(msg, state)[f] # undefined => result.value[f] # undefined

\* the first run changed several fields of a prior state, a conditional one
\* included, and the second run keeps them
C23_Witness ==
  /\ Evaluated("extractFromText, twice")
  /\ result.value.quantity # state.quantity
  /\ result.value.shippingType # state.shippingType
  /\ state.shippingType # undefined
  /\ result.value.addressHandling # state.addressHandling
  /\ result.value.deadlineText # state.deadlineText

\* what the patterns of extractFromText detect in a text, field by field: its
\* result on a prior state that holds nothing
DetectedIn(text) == extractFromText(text, EmptyState)

\* C24: for each field, when the text holds a value the patterns of the field
\* detect, the state extractFromText returns holds that value, also when the
\* prior state held another value for the field
C24_DetectedOverwrites ==
  Evaluated("extractFromText") =>
    \A f \in Fields :
      DetectedIn(msg)[f] # undefined => result.value[f] = DetectedIn(msg)[f]

\* the rungs of the branding ladder a text matches
Rungs == [m \in ExtractTexts |-> {i \in 1..Len(brandingRules) : HasAny(m, brandingRules[i].re)}]

\* the text expresses uncertainty and mentions branding vocabulary
Uncertain == [m \in ExtractTexts |-> HasAny(m, UncertainWords) /\ HasAny(m, BrandingVocabulary)]

\* C25: the uncertain-branding check comes before the ladder: a text that is
\* uncertain and mentions branding leaves branding unset and the
\* qualification flag true, whatever rung it matches and whatever branding
\* the prior state had; any other text sets the branding of the first rung
\* it matches in the order embroidery, laser, insert, sticker, none, and
\* keeps the prior branding when it matches no rung
C25_UncertainBeforeLadder ==
  Evaluated("extractFromText") =>
    IF Uncertain[msg]
    THEN /\ result.value.branding = undefined
         /\ result.value.brandingNeedsQualification = Some(TRUE)
    ELSE /\ \A i \in Rungs[msg] :
              (\A j \in Rungs[msg] : i <= j) =>
                result.value.branding =
                  Some(<<"embroidery", "laser", "insert", "sticker", "none">>[i])
         /\ Rungs[msg] = {} => result.value.branding = state.branding
         /\ result.value.brandingNeedsQualification = state.brandingNeedsQualification

\* "not sure about embroidery" after laser had been chosen: branding is
\* cleared although the embroidery rung matches
C25_Witness ==
  /\ Evaluated("extractFromText")
  /\ msg = Words(<<"not", "sure", "about", "embroidery">>)
  /\ 1 \in Rungs[msg]
  /\ state.branding = Some("laser")
  /\ state.brandingNeedsQualification = undefined
  /\ result.value.branding = undefined
  /\ result.value.brandingNeedsQualification = Some(TRUE)

\* the signals of a text about international destinations: a bare
\* affirmative reply, a bare negative reply or domestic phrasing, a keyword
Signals ==
  [m \in ExtractTexts |->
     [yes |-> bareYes(m),
      no |-> bareNo(m) \/ noInternational(m),
      keyword |-> HasAny(m, InternationalWords)]]

IndividualOrInternational(s) ==
  s.shippingType = Some("individual") \/ s.international = Some(TRUE)

\* every such state scores at least 3 and is not streamlined
ScoredAboveStreamlined ==
  \A s \in ChatStates :
    IndividualOrInternational(s) =>
      computeComplexity(s).score >= 3 /\ computeComplexity(s).mode # "streamlined"

C28_SelfConsistent ==
  Answered =>
    /\ resp.mode = computeComplexity(state).mode
    /\ resp.complexityScore = computeComplexity(state).score
    /\ resp.missing = nextMissing(state)

\* an unsure reply to the branding question: branding none was applied after
\* the score had been computed
C28_Witness ==
  /\ Answered
  /\ local.userSaidUnsure
  /\ sent.branding = undefined
  /\ state.branding = Some("none")
  /\ resp.missing # nextMissing(sent)
  /\ resp.complexityScore = computeComplexity(state).score

\* C29: brandingNeedsQualification is sticky: a state of the session that
\* has it keeps it through every later turn, whatever the message, and every
\* later successful turn is assisted and returns no bundle suggestion
C29_QualificationSticky ==
  [][state.brandingNeedsQualification = Some(TRUE) =>
       /\ state'.brandingNeedsQualification = Some(TRUE)
       /\ resp'.status = 200 =>
            /\ resp'.mode = "assisted"
            /\ resp'.bundleSuggestions = <<>>]_vars

\* the flag was set in an earlier turn; this turn's message names a branding
\* method, branding is set by it and the flag is still there
C29_Witness ==
  /\ Answered
  /\ ~local.userSaidUnsure
  /\ sent.brandingNeedsQualification = Some(TRUE)
  /\ sent.branding = undefined
  /\ state.branding # undefined
  /\ state.brandingNeedsQualification = Some(TRUE)
  /\ resp.mode = "assisted"
  /\ resp.missing \in {<<>>, <<"email">>}

\* processTurn has been called on session sent with message msg
Called == pc = "schema" /\ turn > 0

\* the positions of the schema fields session has not collected
Uncollected(session) ==
  {i \in 1..Len(local.schema) : local.schema[i].key \notin DOMAIN session.collectedFields}

\* the position of the field a call on session targets: the first uncollected
\* required one, else the first uncollected one (0: none)
Target(session) ==
  LET unc == Uncollected(session)
      req == {i \in unc : local.schema[i].required}
      first(S) == CHOOSE i \in S : \A j \in S : i <= j
  IN  IF req # {} THEN first(req) ELSE IF unc # {} THEN first(unc) ELSE 0

\* C30: a call of processTurn targets the first uncollected required field
\* (the first uncollected optional one when there is none): without a value
\* for it the action is confirm with that target and collectedFields and
\* status are unchanged; with a value exactly the key of the target is added
\* and no other key changes; the action is finalize with status complete
\* exactly when no schema field is uncollected after the call
C30_ProcessTurn ==
  Called =>
    LET t == Target(sent)
        before == sent.collectedFields
        after == state.collectedFields
    IN  /\ t # 0 /\ extractField(msg, local.schema[t]) = null =>
             /\ result.action = "confirm"
             /\ result.targetField = Some(local.schema[t])
             /\ after = before
             /\ state.status = sent.status
        /\ t # 0 /\ extractField(msg, local.schema[t]) # null =>
             /\ result.action \in {"ask", "finalize"}
             /\ local.schema[t].key \notin DOMAIN before
             /\ DOMAIN after = DOMAIN before \cup {local.schema[t].key}
             /\ \A k \in DOMAIN before : after[k] = before[k]
             /\ after[local.schema[t].key].value =
                  Get(extractField(msg, local.schema[t]))
        /\ t = 0 => after = before
        /\ (result.action = "finalize" /\ state.status = "complete")
             <=> Uncollected(state) = {}
        /\ result.action = "finalize" <=> Uncollected(state) = {}

\* an optional field comes first in the schema and is uncollected, the call
\* stored the e-mail address of the required field after it, and a required
\* field is still to come
C30_Witness ==
  /\ Called
  /\ Len(local.schema) = 4
  /\ Uncollected(sent) = {1, 2, 3, 4}
  /\ msg = "Bob@Corp.com"
  /\ DOMAIN state.collectedFields = {"contactEmail"}
  /\ state.collectedFields["contactEmail"].value = "bob@corp.com"
  /\ result.action = "ask"
  /\ result.targetField = Some(local.schema[3])

====
